---- MODULE Spec2Model ----
(***************************************************************************)
(* Statement execution engine of ViperMonkey (vipermonkey/core/            *)
(* statements.py): the eval methods of the statement classes, run as a     *)
(* small-step interpreter over a stack of evaluation frames (one frame per *)
(* eval call of the Python call chain) against the shared Context.         *)
(***************************************************************************)
EXTENDS Integers, Sequences, FiniteSets, TLC

\* ------------------------------------------------------------------ bounds
MaxIdx == 3        \* largest For start value
MaxEnd == 5        \* largest For end value
MaxStrLen == 2     \* longest text / list literal of the Let programs
MaxArgs == 2       \* longest argument list of the Call programs
MaxSel == 11       \* largest select value of the Select programs
MaxCases == 3      \* most cases of a generated Select statement
MaxNest == 3       \* largest end value of the nested For loops
MaxIndex == 5      \* largest index of an indexed Let
MaxWith == 3       \* deepest nesting of With blocks
MaxOuter == 2      \* most iterations of a loop put around a statement
MaxItems == 3      \* longest sequence a For-Each runs over
MaxPieces == 3     \* most guarded pieces of a generated If statement
MaxDecls == 2      \* most variables a Dim statement declares
MaxPrints == 2     \* most Print statements of a program that writes files

\* ------------------------------------------------------------------ values
\* Python values, all of one record shape: t the type, n the number of an
\* int or bool, s the character codes of a str, l the elements of a list.
V(t, n, s, l) == [t |-> t, n |-> n, s |-> s, l |-> l]
IntV(i) == V("int", i, <<>>, <<>>)
BoolV(b) == V("bool", IF b THEN 1 ELSE 0, <<>>, <<>>)
StrV(cs) == V("str", 0, cs, <<>>)
ListV(xs) == V("list", 0, <<>>, xs)
NoneV == V("none", 0, <<>>, <<>>)
\* a float, held as the number of its halves: FloatV(5) is 2.5
FloatV(h) == V("float", h, <<>>, <<>>)
\* a callable found in the Context; n = 1: its eval ends with a KeyError
ProcV(k) == V("proc", k, <<>>, <<>>)
\* a raised exception, as the result of an evaluation
Raise(kind) == V(kind, 0, <<>>, <<>>)
Exceptions == {"KeyError", "TypeError", "ValueError", "IndexError",
               "AttributeError", "AssertionError"}
IsExc(v) == v.t \in Exceptions

\* isinstance(v, int) (bool is a subclass of int), isinstance(v, str), ...
IsInt(v) == v.t \in {"int", "bool"}
IsStr(v) == v.t = "str"
IsList(v) == v.t = "list"
\* a number: int, bool or float; and twice its value
IsNum(v) == IsInt(v) \/ v.t = "float"
Twice(v) == IF v.t = "float" THEN v.n ELSE 2 * v.n
\* truth value of a Python object
Truthy(v) == CASE IsNum(v) -> v.n # 0
               [] IsStr(v) -> v.s # <<>>
               [] IsList(v) -> v.l # <<>>
               [] v.t = "none" -> FALSE
               [] OTHER -> TRUE
\* a == b
PyEq(a, b) == IF IsNum(a) /\ IsNum(b) THEN Twice(a) = Twice(b) ELSE a = b
\* rank of a type in Python 2's ordering of objects of different types:
\* None first, then numbers, then the others by type name
TypeRank(v) == CASE v.t = "none" -> 0
                 [] IsNum(v) -> 1
                 [] v.t = "list" -> 2
                 [] v.t = "proc" -> 3
                 [] OTHER -> 4
RECURSIVE SeqLe(_, _)
SeqLe(x, y) == IF x = <<>> THEN TRUE
               ELSE IF y = <<>> THEN FALSE
               ELSE IF Head(x) # Head(y) THEN Head(x) < Head(y)
               ELSE SeqLe(Tail(x), Tail(y))
\* a <= b (Python 2: every two objects compare)
PyLe(a, b) == IF IsNum(a) /\ IsNum(b) THEN Twice(a) <= Twice(b)
              ELSE IF IsStr(a) /\ IsStr(b) THEN SeqLe(a.s, b.s)
              ELSE IF TypeRank(a) # TypeRank(b) THEN TypeRank(a) < TypeRank(b)
              ELSE TRUE
\* a + b
PyAdd(a, b) == IF IsInt(a) /\ IsInt(b) THEN IntV(a.n + b.n)
               ELSE IF IsNum(a) /\ IsNum(b) THEN FloatV(Twice(a) + Twice(b))
               ELSE IF IsStr(a) /\ IsStr(b) THEN StrV(a.s \o b.s)
               ELSE IF IsList(a) /\ IsList(b) THEN ListV(a.l \o b.l)
               ELSE Raise("TypeError")
\* int(v)
PyInt(v) == IF IsInt(v) THEN IntV(v.n)
            ELSE IF v.t = "float"
            THEN IntV(IF v.n >= 0 THEN v.n \div 2 ELSE 0 - ((0 - v.n) \div 2))
            ELSE IF IsStr(v) THEN Raise("ValueError")
            ELSE Raise("TypeError")

\* ------------------------------------------------------------------- names
\* Text is a sequence of character codes; the names of the programs below.
Dot == 46
N_i == <<105>>                      \* i
N_j == <<106>>                      \* j
N_x == <<120>>                      \* x
N_y == <<121>>                      \* y
N_Bar == <<66, 97, 114>>            \* Bar
N_FooBar == <<70, 111, 111, 46, 66, 97, 114>>   \* Foo.Bar
N_oM == <<111, 46, 109>>            \* o.m

\* ------------------------------------------------------------- expressions
\* The expressions embedded in statements, evaluated by eval_arg.
Lit(v) == [e |-> "lit", v |-> v]
Var(n) == [e |-> "var", n |-> n]
Add(a, b) == [e |-> "add", a |-> a, b |-> b]
Lt(a, b) == [e |-> "lt", a |-> a, b |-> b]
Fail(kind) == [e |-> "fail", k |-> kind]
\* For_Statement.step_value when the statement has no Step clause (the 1 of
\* tokens.get('step_value', 1))
NoStep == [e |-> "nostep"]
\* Let_Statement.index when the target has no index (None)
NoIndex == [e |-> "noindex"]

VARIABLES
    prog,             \* the program under emulation and its inputs
    variables,        \* Context: name -> value
    types,            \* Context: name -> declared type
    loop_stack,       \* Context.loop_stack
    actions,          \* Context.report_action log
    log,              \* records written to the logger
    calls,            \* invocations of callables found in the Context
    evald,            \* expressions handed to eval_arg, in order
    stack,            \* frames of the eval calls in progress, innermost last
    exc,              \* exception being raised, or "none"
    loop_upper_bound, \* VBA_Object.loop_upper_bound
    with_prefix,      \* Context.with_prefix
    exit_func,        \* Context.exit_func
    call_ret,         \* what the last Call_Statement.eval to return returned
    open_files        \* Context.open_files: handle -> name and contents

vars == <<prog, variables, types, loop_stack, actions, log, calls, evald,
          stack, exc, loop_upper_bound, with_prefix, exit_func, call_ret,
          open_files>>

\* ----------------------------------------------------------------- Context
\* context.get(name) on the variable table vt
CtxGet(vt, name) == IF name \in DOMAIN vt THEN vt[name] ELSE Raise("KeyError")
\* context.set(name, value)
CtxSet(vt, name, value) ==
    [k \in DOMAIN vt \cup {name} |-> IF k = name THEN value ELSE vt[k]]
\* context.get_type(name)
CtxGetType(tt, name) == IF name \in DOMAIN tt THEN tt[name] ELSE "None"
\* context.report_action(category, description, source): one more record
ReportAction(as, category, description, source) ==
    Append(as, [cat |-> category, desc |-> description, src |-> source])
\* one record of the logger: level, message, name and value it is about
LogRec(lvl, msg, name, value) == [lvl |-> lvl, m |-> msg, n |-> name, v |-> value]
\* log.debug(...): the records are kept when the logger is at the debug level
LogDebug(lg, recs) == IF prog.dbg THEN lg \o recs ELSE lg

\* eval_arg(expr, context) on the variable table vt
RECURSIVE EvalArg(_, _)
EvalArg(x, vt) ==
    CASE x.e = "lit" -> x.v
      [] x.e = "var" -> CtxGet(vt, x.n)
      [] x.e = "fail" -> Raise(x.k)
      [] x.e \in {"add", "lt"} ->
            LET a == EvalArg(x.a, vt)
                b == EvalArg(x.b, vt)
            IN  IF IsExc(a) THEN a
                ELSE IF IsExc(b) THEN b
                ELSE IF x.e = "add" THEN PyAdd(a, b)
                ELSE BoolV(~PyLe(b, a))
\* eval_args(params, context): the values, or the first exception
EvalArgs(ps, vt) ==
    LET vs == [k \in 1..Len(ps) |-> EvalArg(ps[k], vt)]
        bad == {k \in 1..Len(ps) : IsExc(vs[k])}
    IN  IF bad = {} THEN ListV(vs)
        ELSE vs[CHOOSE k \in bad : \A m \in bad : k <= m]

\* ------------------------------------------------------------------ frames
\* One frame per eval call in progress: the statement, the place reached in
\* its eval, and the locals of that eval
\* (ls0 and wp0 record the loop stack and the with-prefix at the call, for
\* stating properties)
Frame(s) == [s |-> s, pc |-> "start", i |-> 0, end |-> NoneV, step |-> NoneV,
             sel |-> NoneV, items |-> <<>>, j |-> 0, ls0 |-> loop_stack,
             wp0 |-> with_prefix]
Top == stack[Len(stack)]
Pop == SubSeq(stack, 1, Len(stack) - 1)
SetTop(f) == [stack EXCEPT ![Len(stack)] = f]
\* the eval of the top frame calls s.eval(context) and resumes at pc
CallEval(pc, i, s) ==
    Append(SetTop([Top EXCEPT !.pc = pc, !.i = i]), Frame(s))
Running == exc = "none" /\ stack # <<>>
At(kind, pc) == Running /\ Top.s.kind = kind /\ Top.pc = pc


\* ------------------------------------------------------------ text helpers
Lower(cs) == [k \in 1..Len(cs) |-> IF cs[k] \in 65..90 THEN cs[k] + 32 ELSE cs[k]]
HasDot(cs) == \E k \in 1..Len(cs) : cs[k] = Dot
EndsWith(cs, suf) ==
    /\ Len(cs) >= Len(suf)
    /\ SubSeq(cs, Len(cs) - Len(suf) + 1, Len(cs)) = suf
\* cs.replace(pat, ""): the occurrences of pat removed, left to right
RECURSIVE RemoveAll(_, _)
RemoveAll(cs, pat) ==
    IF Len(cs) < Len(pat) THEN cs
    ELSE IF SubSeq(cs, 1, Len(pat)) = pat
         THEN RemoveAll(SubSeq(cs, Len(pat) + 1, Len(cs)), pat)
         ELSE <<Head(cs)>> \o RemoveAll(Tail(cs), pat)
\* cs[cs.rindex(".") + 1:]
AfterLastDot(cs) ==
    LET last == CHOOSE k \in 1..Len(cs) :
                    cs[k] = Dot /\ \A m \in (k + 1)..Len(cs) : cs[m] # Dot
    IN  SubSeq(cs, last + 1, Len(cs))
N_msgbox == <<109, 115, 103, 98, 111, 120>>                    \* msgbox
N_MsgBox == <<77, 115, 103, 66, 111, 120>>                     \* MsgBox
N_DotWrite == <<46, 87, 114, 105, 116, 101>>                   \* .Write
N_VBADot == <<86, 66, 65, 46>>                                 \* VBA.
N_MathDot == <<77, 97, 116, 104, 46>>                          \* Math.
N_Run == <<82, 117, 110>>                                      \* Run
N_ApplicationRun == <<65, 112, 112, 108, 105, 99, 97, 116, 105, 111, 110,
                      46, 82, 117, 110>>                       \* Application.Run

\* ---------------------------------------------------------- Call_Statement
\* (variant: a dotted name is not cut to its last segment)
NormalizeName_KeepDots(func_name) ==
    RemoveAll(RemoveAll(RemoveAll(func_name, <<36>>), N_VBADot), N_MathDot)
\* The name the call is retried with after the exact lookup failed.
NormalizeName(func_name) ==
    LET t1 == RemoveAll(func_name, <<36>>)
        t2 == RemoveAll(t1, N_VBADot)
        t3 == RemoveAll(t2, N_MathDot)
        t4 == RemoveAll(RemoveAll(t3, <<91>>), <<93>>)
        t5 == RemoveAll(RemoveAll(t4, <<39>>), <<34>>)
    IN  IF HasDot(t5) THEN AfterLastDot(t5) ELSE t5

\* The state of one Call evaluation: invocations so far, log, exception.
CallSt(cs, lg, ex) == [cs |-> cs, lg |-> lg, ex |-> ex]
\* s.eval(context=context, params=ps) of the object s found under name
Invoke(s, name, ps, st) ==
    IF s.t # "proc" THEN CallSt(st.cs, st.lg, "AttributeError")
    ELSE CallSt(Append(st.cs, [name |-> name, params |-> ps]), st.lg,
                IF s.n = 1 THEN "KeyError" ELSE "none")
NotFound(func_name, st) ==
    CallSt(st.cs, Append(st.lg, LogRec("error", "Procedure not found", func_name, NoneV)),
           "none")
\* (variant: the procedure is handed every parameter, its own name included)
IndirectRun_AllParams(func_name, ps, vt, st) ==
    IF func_name = N_ApplicationRun \/ func_name = N_Run
    THEN IF ps = <<>> THEN CallSt(st.cs, st.lg, "IndexError")
         ELSE LET new_func == ps[1]
                  new_params == ps
                  s == IF IsStr(new_func) THEN CtxGet(vt, new_func.s)
                       ELSE Raise("TypeError")
              IN  IF s.t = "KeyError" THEN NotFound(func_name, st)
                  ELSE IF IsExc(s) THEN CallSt(st.cs, st.lg, s.t)
                  ELSE LET r == Invoke(s, new_func.s, new_params, st)
                       IN  IF r.ex = "KeyError" THEN NotFound(func_name, [r EXCEPT !.ex = "none"])
                           ELSE r
    ELSE NotFound(func_name, st)
\* the handler of the inner except KeyError
IndirectRun(func_name, ps, vt, st) ==
    IF func_name = N_ApplicationRun \/ func_name = N_Run
    THEN IF ps = <<>> THEN CallSt(st.cs, st.lg, "IndexError")
         ELSE LET new_func == ps[1]
                  new_params == Tail(ps)
                  s == IF IsStr(new_func) THEN CtxGet(vt, new_func.s)
                       ELSE Raise("TypeError")
              IN  IF s.t = "KeyError" THEN NotFound(func_name, st)
                  ELSE IF IsExc(s) THEN CallSt(st.cs, st.lg, s.t)
                  ELSE LET r == Invoke(s, new_func.s, new_params, st)
                       IN  IF r.ex = "KeyError" THEN NotFound(func_name, [r EXCEPT !.ex = "none"])
                           ELSE r
    ELSE NotFound(func_name, st)
\* the handler of the outer except KeyError
NormalizedLookup(func_name, ps, vt, st) ==
    LET tmp_name == NormalizeName(func_name)
        s == CtxGet(vt, tmp_name)
    IN  IF IsExc(s) THEN IndirectRun(func_name, ps, vt, st)
        ELSE IF ~Truthy(s) THEN st
        ELSE LET r == Invoke(s, tmp_name, ps, st)
             IN  IF r.ex = "KeyError"
                 THEN IndirectRun(func_name, ps, vt, [r EXCEPT !.ex = "none"])
                 ELSE r
\* the try of the exact lookup
ExactLookup(func_name, ps, vt, st) ==
    LET s == CtxGet(vt, func_name)
    IN  IF IsExc(s) THEN NormalizedLookup(func_name, ps, vt, st)
        ELSE LET r == Invoke(s, func_name, ps, st)
             IN  IF r.ex = "KeyError"
                 THEN NormalizedLookup(func_name, ps, vt, [r EXCEPT !.ex = "none"])
                 ELSE r
\* p.replace("\x00", "") on the str parameters of a .Write call
StripNul(ps) ==
    [k \in 1..Len(ps) |-> IF IsStr(ps[k]) THEN StrV(RemoveAll(ps[k].s, <<0>>))
                          ELSE ps[k]]

\* the parameters eval_args has evaluated: all, or those up to the first
\* one that fails
ArgsTried(ps, vt) ==
    LET bad == {k \in 1..Len(ps) : IsExc(EvalArg(ps[k], vt))}
    IN  IF bad = {} THEN ps
        ELSE SubSeq(ps, 1, CHOOSE k \in bad : \A m \in bad : k <= m)

\* (variant: the call is recorded only when the normalized name is dotted)
ReportsCall_Normalized(func_name) ==
    HasDot(RemoveAll(RemoveAll(func_name, N_VBADot), N_MathDot))
\* elif '.' in func_name: the call is recorded as an Object.Method Call
ReportsCall(func_name) == HasDot(func_name)

\* (variant: MsgBox is recognised in this spelling only)
IsMsgBox_Exact(func_name) == func_name = N_MsgBox
\* func_name.lower() == 'msgbox'
IsMsgBox(func_name) == Lower(func_name) = N_msgbox

\* Call_Statement.eval up to the lookup: the parameters, the MsgBox
\* short-circuit, the record of a dotted call
CallStatement ==
    /\ At("Call", "start")
    /\ LET s == Top.s
           call_params == EvalArgs(s.params, variables)
           func_name == s.name
       IN  /\ evald' = evald \o ArgsTried(s.params, variables)
           /\ IF IsExc(call_params)
              THEN /\ exc' = call_params.t
                   /\ UNCHANGED <<actions, stack, call_ret>>
              ELSE IF IsMsgBox(func_name)
              THEN IF call_params.l = <<>>
                   THEN /\ exc' = "IndexError"
                        /\ UNCHANGED <<actions, stack, call_ret>>
                   ELSE /\ actions' = ReportAction(actions, "Display Message",
                                                   <<call_params.l[1]>>, N_MsgBox)
                        /\ call_ret' = IntV(1)
                        /\ stack' = Pop
                        /\ exc' = "none"
              ELSE /\ actions' =
                        IF ReportsCall(func_name)
                        THEN ReportAction(actions, "Object.Method Call",
                                IF EndsWith(func_name, N_DotWrite)
                                THEN StripNul(call_params.l)
                                ELSE call_params.l,
                                func_name)
                        ELSE actions
                   /\ stack' = SetTop([Top EXCEPT !.pc = "lookup",
                                                  !.items = call_params.l])
                   /\ UNCHANGED <<exc, call_ret>>
    /\ UNCHANGED <<prog, open_files, with_prefix, exit_func, variables, types, loop_stack,
                   log, calls, loop_upper_bound>>

\* Call_Statement.eval from the lookup on: exact name, normalized name,
\* indirect Run, "not found"
CallLookup ==
    /\ At("Call", "lookup")
    /\ LET r == ExactLookup(Top.s.name, Top.items, variables,
                            CallSt(calls, log, "none"))
       IN  /\ calls' = r.cs
           /\ log' = r.lg
           /\ exc' = r.ex
           /\ IF r.ex = "none"
              THEN /\ stack' = Pop
                   /\ call_ret' = NoneV
              ELSE UNCHANGED <<stack, call_ret>>
    /\ UNCHANGED <<prog, open_files, with_prefix, exit_func, variables, types, loop_stack,
                   actions, evald, loop_upper_bound>>

\* ----------------------------------------------------------- Let_Statement
Min(a, b) == IF a <= b THEN a ELSE b
Max(a, b) == IF a >= b THEN a ELSE b
\* the position a slice bound k denotes in a sequence of length n
SliceBound(k, n) == IF k < 0 THEN Max(k + n, 0) ELSE Min(k, n)
\* xs[:k] and xs[k:] of Python, on sequences
Upto(xs, k) == SubSeq(xs, 1, SliceBound(k, Len(xs)))
From(xs, k) == SubSeq(xs, SliceBound(k, Len(xs)) + 1, Len(xs))
\* [x] * k
Repeat(x, k) == [m \in 1..k |-> x]

\* (variant: no zero byte after each code)
ToByteArray_Narrow(cs) == [k \in 1..Len(cs) |-> IntV(cs[k])]
\* for c in value: tmp.append(ord(c)); tmp.append(0)
RECURSIVE ToByteArray(_)
ToByteArray(cs) ==
    IF cs = <<>> THEN <<>>
    ELSE <<IntV(Head(cs)), IntV(0)>> \o ToByteArray(Tail(cs))

\* (variant: every position is decoded, not every second one)
RECURSIVE EvenChars_Step1(_, _)
EvenChars_Step1(l, pos) ==
    IF pos >= Len(l) THEN <<>>
    ELSE IF l[pos + 1].n \notin 0..255 THEN <<0 - 1>>
    ELSE LET rest == EvenChars_Step1(l, pos + 1)
         IN  IF rest = <<0 - 1>> THEN rest ELSE <<l[pos + 1].n>> \o rest
\* while (pos < len(value)): tmp += chr(value[pos]); pos += 2
\* the codes collected from position pos on (0-based), or <<-1>> when a chr
\* raises its ValueError
RECURSIVE EvenChars(_, _)
EvenChars(l, pos) ==
    IF pos >= Len(l) THEN <<>>
    ELSE IF l[pos + 1].n \notin 0..255 THEN <<0 - 1>>
    ELSE LET rest == EvenChars(l, pos + 2)
         IN  IF rest = <<0 - 1>> THEN rest ELSE <<l[pos + 1].n>> \o rest
\* for i in value: if (i is not None): tmp += i
RECURSIVE JoinChars(_)
JoinChars(l) ==
    IF l = <<>> THEN <<>>
    ELSE (IF Head(l).t = "none" THEN <<>> ELSE Head(l).s) \o JoinChars(Tail(l))
\* the conversion of a list assigned to a String variable
ListToString(value) ==
    LET all_ints == \A k \in 1..Len(value.l) : IsInt(value.l[k])
        tmp == EvenChars(value.l, 0)
        v1 == IF all_ints /\ tmp # <<0 - 1>> THEN StrV(tmp) ELSE value
        all_chars == \A k \in 1..Len(v1.l) :
                        v1.l[k].t = "none" \/ (IsStr(v1.l[k]) /\ Len(v1.l[k].s) <= 1)
    IN  IF IsStr(v1) THEN v1
        ELSE IF all_chars THEN StrV(JoinChars(v1.l))
        ELSE v1
\* (variant: the conversions follow the shape of the value, not the type)
Coerce_ByShape(type, value) ==
    IF IsStr(value) THEN ListV(ToByteArray(value.s))
    ELSE IF IsList(value) THEN ListToString(value) ELSE value
\* the value a non-indexed Let stores for the evaluated value
Coerce(type, value) ==
    LET v1 == IF type = "Byte Array" /\ IsStr(value)
              THEN ListV(ToByteArray(value.s)) ELSE value
    IN  IF type = "String" /\ IsList(v1) THEN ListToString(v1) ELSE v1

\* (variant: the list is not extended up to the index)
SetListItem_NoExtend(arr, index, value) ==
    Upto(arr, index) \o <<value>> \o From(arr, index + 1)
\* the list rebuilt by name(index) = value
SetListItem(arr, index, value) ==
    LET ext == IF index >= Len(arr)
               THEN arr \o Repeat(IntV(0), index - Len(arr)) ELSE arr
    IN  Upto(ext, index) \o <<value>> \o From(ext, index + 1)
\* the string rebuilt by name(index) = value, or the string left alone
SetStrItem(cs, index, value) ==
    LET ext == IF index >= Len(cs) THEN cs \o Repeat(0, index - Len(cs)) ELSE cs
    IN  IF IsStr(value) THEN Upto(ext, index) \o value.s \o From(ext, index + 1)
        ELSE IF IsInt(value) /\ value.n \in 0..255
        THEN Upto(ext, index) \o <<value.n>> \o From(ext, index + 1)
        ELSE ext
\* the records of log.error of an indexed assignment
SetItemLog(name, found, target, value) ==
    (IF found THEN <<>>
     ELSE <<LogRec("error", "Cannot find array variable", name, NoneV)>>)
    \o (IF ~IsStr(target) \/ IsStr(value) THEN <<>>
        ELSE IF IsInt(value)
        THEN (IF value.n \in 0..255 THEN <<>>
              ELSE <<LogRec("error", "cannot be converted to ASCII", name, value)>>)
        ELSE <<LogRec("error", "Unhandled value type for array update", name, value)>>)

\* Let_Statement.eval
LetStatement ==
    /\ At("Let", "start")
    /\ LET s == Top.s
           value == EvalArg(s.expression, variables)
           indexed == s.index.e # "noindex"
           idx0 == IF indexed THEN EvalArg(s.index, variables) ELSE NoneV
           index == IF IsExc(idx0) THEN idx0 ELSE PyInt(idx0)
           got == CtxGet(variables, s.name)
           found == ~IsExc(got)
           arr_var == IF found /\ (IsList(got) \/ IsStr(got)) THEN got ELSE ListV(<<>>)
       IN  IF IsExc(value)
           THEN /\ exc' = value.t
                /\ evald' = Append(evald, s.expression)
                /\ UNCHANGED <<variables, log, stack>>
           ELSE IF ~indexed
           THEN /\ variables' = CtxSet(variables, s.name,
                                       Coerce(CtxGetType(types, s.name), value))
                /\ evald' = Append(evald, s.expression)
                /\ stack' = Pop
                /\ UNCHANGED <<log, exc>>
           ELSE IF IsExc(index)
           THEN /\ exc' = index.t
                /\ evald' = evald \o <<s.expression, s.index>>
                /\ UNCHANGED <<variables, log, stack>>
           ELSE /\ variables' = CtxSet(variables, s.name,
                        IF IsList(arr_var)
                        THEN ListV(SetListItem(arr_var.l, index.n, value))
                        ELSE StrV(SetStrItem(arr_var.s, index.n, value)))
                /\ log' = log \o SetItemLog(s.name, found, arr_var, value)
                /\ evald' = evald \o <<s.expression, s.index>>
                /\ stack' = Pop
                /\ exc' = "none"
    /\ UNCHANGED <<prog, open_files, with_prefix, exit_func, call_ret, types, loop_stack,
                   actions, calls, loop_upper_bound>>

\* ----------------------------------------------------------- For_Statement
\* (variant: the end value is kept whatever its type)
IntOrZero_Keep(end) == end
\* if (not isinstance(end, int)): end = 0
IntOrZero(end) == IF ~IsInt(end) THEN IntV(0) ELSE end

\* For_Statement.eval up to the loop: bounds, loop-stack entry, index
ForStart ==
    /\ At("For", "start")
    /\ LET s == Top.s
           start == EvalArg(s.start_value, variables)
           end0 == EvalArg(s.end_value, variables)
           end1 == IntOrZero(end0)
           end == IF loop_upper_bound > 0 /\ end1.n > loop_upper_bound
                  THEN IntV(loop_upper_bound) ELSE end1
           given == s.step_value.e # "nostep"
           step == IF given THEN EvalArg(s.step_value, variables) ELSE IntV(1)
       IN  IF IsExc(start)
           THEN /\ exc' = start.t
                /\ evald' = Append(evald, s.start_value)
                /\ UNCHANGED <<loop_stack, variables, stack>>
           ELSE IF IsExc(end0)
           THEN /\ exc' = end0.t
                /\ evald' = evald \o <<s.start_value, s.end_value>>
                /\ UNCHANGED <<loop_stack, variables, stack>>
           ELSE IF IsExc(step)
           THEN /\ exc' = step.t
                /\ evald' = evald \o <<s.start_value, s.end_value, s.step_value>>
                /\ UNCHANGED <<loop_stack, variables, stack>>
           ELSE /\ evald' = evald \o <<s.start_value, s.end_value>>
                              \o (IF given THEN <<s.step_value>> ELSE <<>>)
                /\ loop_stack' = Append(loop_stack, TRUE)
                /\ variables' = CtxSet(variables, s.name, start)
                /\ stack' = SetTop([Top EXCEPT !.pc = "test", !.end = end, !.step = step])
                /\ exc' = "none"
    /\ UNCHANGED <<prog, open_files, with_prefix, exit_func, call_ret, types, actions,
                   log, calls, loop_upper_bound>>

\* (variant: the loop condition with < for <=)
ForCond_Strict(val, end) == ~PyLe(end, val)
\* the loop condition: context.get(self.name) <= end
ForCond(val, end) == PyLe(val, end)

\* (variant: the end expression is evaluated again for every loop test)
EndValue_Reevaluated(f, vt) ==
    LET e == EvalArg(f.s.end_value, vt)
    IN  IF ~IsInt(e) THEN IntV(0) ELSE e
\* the end of the loop condition: the local end, set before the loop
EndValue(f, vt) == f.end

\* while (context.get(self.name) <= end)
ForTest ==
    /\ At("For", "test")
    /\ LET s == Top.s
           val == CtxGet(variables, s.name)
       IN  IF IsExc(val)
           THEN /\ exc' = val.t
                /\ UNCHANGED <<stack, log>>
           ELSE IF ForCond(val, EndValue(Top, variables))
           THEN /\ log' = LogDebug(log, <<LogRec("debug", "FOR loop", s.name, val)>>)
                /\ stack' = SetTop([Top EXCEPT !.pc = "body", !.i = 1])
                /\ exc' = "none"
           ELSE /\ stack' = SetTop([Top EXCEPT !.pc = "end"])
                /\ UNCHANGED <<log, exc>>
    /\ UNCHANGED <<prog, open_files, with_prefix, exit_func, call_ret, variables, types,
                   loop_stack, actions, calls, evald, loop_upper_bound>>

\* for s in self.statements: s.eval(context); after the last one the index
\* is incremented by the step
ForBody ==
    /\ At("For", "body")
    /\ LET s == Top.s
           val == CtxGet(variables, s.name)
           next == IF IsExc(val) THEN val ELSE PyAdd(val, Top.step)
       IN  IF Top.i <= Len(s.statements)
           THEN /\ stack' = CallEval("check", Top.i, s.statements[Top.i])
                /\ UNCHANGED <<variables, exc>>
           ELSE IF IsExc(next)
           THEN /\ exc' = next.t
                /\ UNCHANGED <<variables, stack>>
           ELSE /\ variables' = CtxSet(variables, s.name, next)
                /\ stack' = SetTop([Top EXCEPT !.pc = "test"])
                /\ exc' = "none"
    /\ UNCHANGED <<prog, open_files, with_prefix, exit_func, call_ret, types, loop_stack,
                   actions, log, calls, evald, loop_upper_bound>>

\* if (not context.loop_stack[-1]): done = True; break
ForCheck ==
    /\ At("For", "check")
    /\ IF loop_stack = <<>>
       THEN /\ exc' = "IndexError"
            /\ UNCHANGED stack
       ELSE /\ stack' = SetTop(IF ~loop_stack[Len(loop_stack)]
                               THEN [Top EXCEPT !.pc = "end"]
                               ELSE [Top EXCEPT !.pc = "body", !.i = Top.i + 1])
            /\ exc' = "none"
    /\ UNCHANGED <<prog, open_files, with_prefix, exit_func, call_ret, variables, types,
                   loop_stack, actions, log, calls, evald, loop_upper_bound>>

\* context.loop_stack.pop()
ForEnd ==
    /\ At("For", "end")
    /\ IF loop_stack = <<>>
       THEN /\ exc' = "IndexError"
            /\ UNCHANGED <<stack, loop_stack>>
       ELSE /\ loop_stack' = SubSeq(loop_stack, 1, Len(loop_stack) - 1)
            /\ stack' = Pop
            /\ exc' = "none"
    /\ UNCHANGED <<prog, open_files, with_prefix, exit_func, call_ret, variables, types,
                   actions, log, calls, evald, loop_upper_bound>>

\* (variants: every entry is flipped; the entry is popped and not replaced;
\* a false entry is pushed on the others)
ExitLoop_All(ls) == [k \in 1..Len(ls) |-> FALSE]
ExitLoop_PopOnly(ls) == SubSeq(ls, 1, Len(ls) - 1)
ExitLoop_Push(ls) == Append(ls, FALSE)
\* context.loop_stack.pop(); context.loop_stack.append(False)
ExitLoop(ls) == Append(SubSeq(ls, 1, Len(ls) - 1), FALSE)

\* Exit_For_Statement.eval (Exit_While_Statement inherits it)
ExitFor ==
    /\ Running
    /\ Top.s.kind \in {"ExitFor", "ExitWhile"}
    /\ IF loop_stack = <<>>
       THEN /\ exc' = "IndexError"
            /\ UNCHANGED <<stack, loop_stack>>
       ELSE /\ loop_stack' = ExitLoop(loop_stack)
            /\ stack' = Pop
            /\ exc' = "none"
    /\ UNCHANGED <<prog, open_files, with_prefix, exit_func, call_ret, variables, types,
                   actions, log, calls, evald, loop_upper_bound>>

\* Exit_Function_Statement.eval: Mark that we should return from the current
\* function
ExitFunction ==
    /\ Running
    /\ Top.s.kind = "ExitFunction"
    /\ exit_func' = TRUE
    /\ stack' = Pop
    /\ UNCHANGED <<prog, open_files, with_prefix, call_ret, variables, types, loop_stack,
                   actions, log, calls, evald, exc, loop_upper_bound>>

\* ------------------------------------------------------ For_Each_Statement
\* (variant: the values are drawn last to first)
IterItems_Reversed(c) ==
    IF IsList(c) THEN [k \in 1..Len(c.l) |-> c.l[Len(c.l) + 1 - k]]
    ELSE IF IsStr(c) THEN [k \in 1..Len(c.s) |-> StrV(<<c.s[Len(c.s) + 1 - k]>>)]
    ELSE <<>>
\* the values a Python for statement draws from the container, or the
\* TypeError of a container that is not iterable
IterItems(c) ==
    IF IsList(c) THEN c.l
    ELSE IF IsStr(c) THEN [k \in 1..Len(c.s) |-> StrV(<<c.s[k]>>)]
    ELSE <<>>
Iterable(c) == IsList(c) \/ IsStr(c)
\* container = eval_arg(self.container); try: container =
\* context.get(self.container): the lookup succeeds only for a token that is
\* itself the text of a name of the Context
ContainerOf(x, vt) ==
    IF x.e = "lit" /\ IsStr(x.v) /\ x.v.s \in DOMAIN vt THEN vt[x.v.s]
    ELSE EvalArg(x, vt)

\* For_Each_Statement.eval up to the loop
ForEachStart ==
    /\ At("ForEach", "start")
    /\ LET s == Top.s
           first == EvalArg(s.container, variables)
           container == ContainerOf(s.container, variables)
       IN  /\ loop_stack' = Append(loop_stack, TRUE)
           /\ evald' = Append(evald, s.container)
           /\ IF IsExc(first)
              THEN /\ exc' = first.t
                   /\ UNCHANGED stack
              ELSE /\ stack' = SetTop([Top EXCEPT
                                !.pc = IF Iterable(container) THEN "next" ELSE "end",
                                !.items = IterItems(container)])
                   /\ exc' = "none"
    /\ UNCHANGED <<prog, open_files, with_prefix, exit_func, call_ret, variables, types,
                   actions, log, calls, loop_upper_bound>>

\* for item_val in container: context.set(self.item, item_val)
ForEachNext ==
    /\ At("ForEach", "next")
    /\ IF Top.items = <<>>
       THEN /\ stack' = SetTop([Top EXCEPT !.pc = "end"])
            /\ UNCHANGED <<variables, log>>
       ELSE /\ variables' = CtxSet(variables, Top.s.item, Head(Top.items))
            /\ log' = LogDebug(log, <<LogRec("debug", "FOR EACH loop", Top.s.item,
                                              Head(Top.items))>>)
            /\ stack' = SetTop([Top EXCEPT !.pc = "body", !.i = 1,
                                           !.items = Tail(Top.items)])
    /\ UNCHANGED <<prog, open_files, with_prefix, exit_func, call_ret, types, loop_stack,
                   actions, calls, evald, exc, loop_upper_bound>>

\* for s in self.statements: s.eval(context=context)
ForEachBody ==
    /\ At("ForEach", "body")
    /\ stack' = IF Top.i <= Len(Top.s.statements)
                THEN CallEval("check", Top.i, Top.s.statements[Top.i])
                ELSE SetTop([Top EXCEPT !.pc = "next"])
    /\ UNCHANGED <<prog, open_files, with_prefix, exit_func, call_ret, variables, types,
                   loop_stack, actions, log, calls, evald, exc,
                   loop_upper_bound>>

\* if (not context.loop_stack[-1]): done = True; break (inside the try: an
\* IndexError ends the loop like any other exception)
ForEachCheck ==
    /\ At("ForEach", "check")
    /\ stack' = SetTop(IF loop_stack = <<>> \/ ~loop_stack[Len(loop_stack)]
                       THEN [Top EXCEPT !.pc = "end"]
                       ELSE [Top EXCEPT !.pc = "body", !.i = Top.i + 1])
    /\ UNCHANGED <<prog, open_files, with_prefix, exit_func, call_ret, variables, types,
                   loop_stack, actions, log, calls, evald, exc,
                   loop_upper_bound>>

\* except: pass -- an exception of a body statement ends the loop
ForEachExcept ==
    /\ exc # "none"
    /\ stack # <<>>
    /\ Top.s.kind = "ForEach"
    /\ Top.pc = "check"
    /\ exc' = "none"
    /\ stack' = SetTop([Top EXCEPT !.pc = "end"])
    /\ UNCHANGED <<prog, open_files, with_prefix, exit_func, call_ret, variables, types,
                   loop_stack, actions, log, calls, evald, loop_upper_bound>>

\* context.loop_stack.pop()
ForEachEnd ==
    /\ At("ForEach", "end")
    /\ IF loop_stack = <<>>
       THEN /\ exc' = "IndexError"
            /\ UNCHANGED <<stack, loop_stack>>
       ELSE /\ loop_stack' = SubSeq(loop_stack, 1, Len(loop_stack) - 1)
            /\ stack' = Pop
            /\ exc' = "none"
    /\ UNCHANGED <<prog, open_files, with_prefix, exit_func, call_ret, variables, types,
                   actions, log, calls, evald, loop_upper_bound>>

\* --------------------------------------------------------- While_Statement
\* (variant: Until is taken for While)
IsUntil_Never(loop_type) == FALSE
\* self.loop_type.lower() == "until"
IsUntil(loop_type) == loop_type \in {"Until", "until", "UNTIL"}

\* While_Statement.eval up to the loop
WhileStart ==
    /\ At("While", "start")
    /\ loop_stack' = Append(loop_stack, TRUE)
    /\ stack' = SetTop([Top EXCEPT !.pc = "test"])
    /\ UNCHANGED <<prog, open_files, with_prefix, exit_func, call_ret, variables, types,
                   actions, log, calls, evald, exc, loop_upper_bound>>

\* guard_val = eval_arg(self.guard, context); if (not guard_val): break
WhileTest ==
    /\ At("While", "test")
    /\ LET g == EvalArg(Top.s.guard, variables)
           guard_val == IF IsUntil(Top.s.loop_type) THEN ~Truthy(g) ELSE Truthy(g)
       IN  /\ evald' = Append(evald, Top.s.guard)
           /\ IF IsExc(g)
              THEN /\ exc' = g.t
                   /\ UNCHANGED stack
              ELSE /\ stack' = SetTop(IF guard_val
                                      THEN [Top EXCEPT !.pc = "body", !.i = 1]
                                      ELSE [Top EXCEPT !.pc = "end"])
                   /\ exc' = "none"
    /\ UNCHANGED <<prog, open_files, with_prefix, exit_func, call_ret, variables, types,
                   loop_stack, actions, log, calls, loop_upper_bound>>

\* for s in self.body: s.eval(context=context)
WhileBody ==
    /\ At("While", "body")
    /\ stack' = IF Top.i <= Len(Top.s.body)
                THEN CallEval("check", Top.i, Top.s.body[Top.i])
                ELSE SetTop([Top EXCEPT !.pc = "test"])
    /\ UNCHANGED <<prog, open_files, with_prefix, exit_func, call_ret, variables, types,
                   loop_stack, actions, log, calls, evald, exc,
                   loop_upper_bound>>

\* if (not context.loop_stack[-1]): done = True; break
WhileCheck ==
    /\ At("While", "check")
    /\ IF loop_stack = <<>>
       THEN /\ exc' = "IndexError"
            /\ UNCHANGED stack
       ELSE /\ stack' = SetTop(IF ~loop_stack[Len(loop_stack)]
                               THEN [Top EXCEPT !.pc = "end"]
                               ELSE [Top EXCEPT !.pc = "body", !.i = Top.i + 1])
            /\ exc' = "none"
    /\ UNCHANGED <<prog, open_files, with_prefix, exit_func, call_ret, variables, types,
                   loop_stack, actions, log, calls, evald, loop_upper_bound>>

\* context.loop_stack.pop()
WhileEnd ==
    /\ At("While", "end")
    /\ IF loop_stack = <<>>
       THEN /\ exc' = "IndexError"
            /\ UNCHANGED <<stack, loop_stack>>
       ELSE /\ loop_stack' = SubSeq(loop_stack, 1, Len(loop_stack) - 1)
            /\ stack' = Pop
            /\ exc' = "none"
    /\ UNCHANGED <<prog, open_files, with_prefix, exit_func, call_ret, variables, types,
                   actions, log, calls, evald, loop_upper_bound>>

\* ------------------------------------------------------------ Do_Statement
\* Do_Statement.eval up to the loop
DoStart ==
    /\ At("Do", "start")
    /\ loop_stack' = Append(loop_stack, TRUE)
    /\ stack' = SetTop([Top EXCEPT !.pc = "body", !.i = 1])
    /\ UNCHANGED <<prog, open_files, with_prefix, exit_func, call_ret, variables, types,
                   actions, log, calls, evald, exc, loop_upper_bound>>

\* for s in self.body: s.eval(context=context); then the guard is tested
DoBody ==
    /\ At("Do", "body")
    /\ LET g == EvalArg(Top.s.guard, variables)
           guard_val == IF IsUntil(Top.s.loop_type) THEN ~Truthy(g) ELSE Truthy(g)
       IN  IF Top.i <= Len(Top.s.body)
           THEN /\ stack' = CallEval("check", Top.i, Top.s.body[Top.i])
                /\ UNCHANGED <<evald, exc>>
           ELSE /\ evald' = Append(evald, Top.s.guard)
                /\ IF IsExc(g)
                   THEN /\ exc' = g.t
                        /\ UNCHANGED stack
                   ELSE /\ stack' = SetTop(IF guard_val
                                           THEN [Top EXCEPT !.pc = "body", !.i = 1]
                                           ELSE [Top EXCEPT !.pc = "end"])
                        /\ exc' = "none"
    /\ UNCHANGED <<prog, open_files, with_prefix, exit_func, call_ret, variables, types,
                   loop_stack, actions, log, calls, loop_upper_bound>>

\* if (not context.loop_stack[-1]): done = True; break
DoCheck ==
    /\ At("Do", "check")
    /\ IF loop_stack = <<>>
       THEN /\ exc' = "IndexError"
            /\ UNCHANGED stack
       ELSE /\ stack' = SetTop(IF ~loop_stack[Len(loop_stack)]
                               THEN [Top EXCEPT !.pc = "end"]
                               ELSE [Top EXCEPT !.pc = "body", !.i = Top.i + 1])
            /\ exc' = "none"
    /\ UNCHANGED <<prog, open_files, with_prefix, exit_func, call_ret, variables, types,
                   loop_stack, actions, log, calls, evald, loop_upper_bound>>

\* context.loop_stack.pop()
DoEnd ==
    /\ At("Do", "end")
    /\ IF loop_stack = <<>>
       THEN /\ exc' = "IndexError"
            /\ UNCHANGED <<stack, loop_stack>>
       ELSE /\ loop_stack' = SubSeq(loop_stack, 1, Len(loop_stack) - 1)
            /\ stack' = Pop
            /\ exc' = "none"
    /\ UNCHANGED <<prog, open_files, with_prefix, exit_func, call_ret, variables, types,
                   actions, log, calls, evald, loop_upper_bound>>

\* ------------------------------------------------------------ Select-Case
N_else == <<101, 108, 115, 101>>                               \* else
\* the token of the Else keyword of a Case Else clause
ElseTok == [e |-> "else"]
\* str(v).lower() == "else" for a token v of a case clause
IsElseStr(v) ==
    \/ v.e = "else"
    \/ v.e = "lit" /\ IsStr(v.v) /\ Lower(v.v.s) = N_else
\* (variant: no clause is classified as a set)
CaseClause_NoSet(case_val, lb) ==
    [case_val |-> case_val, test_range |-> lb, test_set |-> FALSE,
     is_else |-> \E k \in 1..Len(case_val) : IsElseStr(case_val[k])]
\* Case_Clause.__init__: tokens.case_val are the tokens of the clause,
\* tokens.lbound is set (lb) only by the "lo To hi" form
CaseClause(case_val, lb) ==
    LET test_range == lb /\ lb
    IN  [case_val |-> case_val,
         test_range |-> test_range,
         test_set |-> (~test_range) /\ Len(case_val) > 1,
         is_else |-> \E k \in 1..Len(case_val) : IsElseStr(case_val[k])]

\* the result of a predicate: its value or exception r, the expressions ev
\* it handed to eval_arg
Pred(r, ev) == [r |-> r, ev |-> ev]
\* test_val in range(start, end)
InRange(test_val, start, end) ==
    \E k \in start..(end - 1) : PyEq(test_val, IntV(k))
\* the expressions of a set-case evaluated before the first failure
SetPrefix(vals) ==
    LET bad == {k \in 1..Len(vals) : IsExc(vals[k]) \/ IsList(vals[k])}
    IN  IF bad = {} THEN Len(vals) ELSE CHOOSE k \in bad : \A m \in bad : k <= m
\* (variant: a member that fails is skipped, the others are tested)
SetFails_Skipped(vals) == FALSE
\* except: return False -- a member failed to evaluate or to enter the set
SetFails(vals) == \E k \in 1..Len(vals) : IsExc(vals[k]) \/ IsList(vals[k])
\* Case_Clause.eval(context, [test_val])
CaseClauseEval(cc, test_val, vt) ==
    IF cc.is_else THEN Pred(BoolV(TRUE), <<>>)
    ELSE IF cc.test_range
    THEN LET lo == EvalArg(cc.case_val[1], vt)
             start == IF IsExc(lo) THEN lo ELSE PyInt(lo)
             hi == EvalArg(cc.case_val[2], vt)
             end == IF IsExc(hi) THEN hi ELSE PyInt(hi)
         IN  IF IsExc(start) THEN Pred(BoolV(FALSE), <<cc.case_val[1]>>)
             ELSE IF IsExc(end) THEN Pred(BoolV(FALSE), SubSeq(cc.case_val, 1, 2))
             ELSE Pred(BoolV(InRange(test_val, start.n, end.n + 1)),
                       SubSeq(cc.case_val, 1, 2))
    ELSE IF cc.test_set
    THEN LET vals == [k \in 1..Len(cc.case_val) |-> EvalArg(cc.case_val[k], vt)]
             n == SetPrefix(vals)
         IN  IF SetFails(vals)
             THEN Pred(BoolV(FALSE), SubSeq(cc.case_val, 1, n))
             ELSE IF IsList(test_val) THEN Pred(Raise("TypeError"), cc.case_val)
             ELSE Pred(BoolV(\E k \in 1..Len(vals) : PyEq(test_val, vals[k])),
                       cc.case_val)
    ELSE LET expected_val == EvalArg(cc.case_val[1], vt)
         IN  IF IsExc(expected_val) THEN Pred(expected_val, <<cc.case_val[1]>>)
             ELSE Pred(BoolV(PyEq(test_val, expected_val)), <<cc.case_val[1]>>)

\* Select_Statement.eval: the select value (Select_Clause.eval)
SelectStart ==
    /\ At("Select", "start")
    /\ LET select_guard_val == EvalArg(Top.s.select_val, variables)
       IN  /\ evald' = Append(evald, Top.s.select_val)
           /\ IF IsExc(select_guard_val)
              THEN /\ exc' = select_guard_val.t
                   /\ UNCHANGED stack
              ELSE /\ stack' = SetTop([Top EXCEPT !.pc = "cases", !.i = 1,
                                                  !.sel = select_guard_val])
                   /\ exc' = "none"
    /\ UNCHANGED <<prog, open_files, with_prefix, exit_func, call_ret, variables, types,
                   loop_stack, actions, log, calls, loop_upper_bound>>

\* for case in self.cases: if (case_guard.eval(context, [select_guard_val]))
SelectCase ==
    /\ At("Select", "cases")
    /\ IF Top.i > Len(Top.s.cases)
       THEN /\ stack' = Pop
            /\ UNCHANGED <<log, evald, exc>>
       ELSE LET case == Top.s.cases[Top.i]
                p == CaseClauseEval(case.case_val, Top.sel, variables)
                checking == LogRec("debug", "eval select: checking", <<>>, IntV(Top.i))
                take == LogRec("debug", "eval select: take case", <<>>, IntV(Top.i))
            IN  /\ evald' = evald \o p.ev
                /\ IF IsExc(p.r)
                   THEN /\ exc' = p.r.t
                        /\ log' = LogDebug(log, <<checking>>)
                        /\ UNCHANGED stack
                   ELSE IF Truthy(p.r)
                   THEN /\ log' = LogDebug(log, <<checking, take>>)
                        /\ stack' = SetTop([Top EXCEPT !.pc = "body", !.j = 1])
                        /\ exc' = "none"
                   ELSE /\ log' = LogDebug(log, <<checking>>)
                        /\ stack' = SetTop([Top EXCEPT !.i = Top.i + 1])
                        /\ exc' = "none"
    /\ UNCHANGED <<prog, open_files, with_prefix, exit_func, call_ret, variables, types,
                   loop_stack, actions, calls, loop_upper_bound>>

\* (variant: no break after the body of the case taken)
SelectBody_NoBreak ==
    /\ At("Select", "body")
    /\ LET body == Top.s.cases[Top.i].body
       IN  stack' = IF Top.j <= Len(body)
                    THEN Append(SetTop([Top EXCEPT !.j = Top.j + 1]), Frame(body[Top.j]))
                    ELSE SetTop([Top EXCEPT !.pc = "cases", !.i = Top.i + 1])
    /\ UNCHANGED <<prog, open_files, with_prefix, exit_func, call_ret, variables, types,
                   loop_stack, actions, log, calls, evald, exc,
                   loop_upper_bound>>

\* for statement in case.body: statement.eval(context, params); break
SelectBody ==
    /\ At("Select", "body")
    /\ LET body == Top.s.cases[Top.i].body
       IN  stack' = IF Top.j <= Len(body)
                    THEN Append(SetTop([Top EXCEPT !.j = Top.j + 1]), Frame(body[Top.j]))
                    ELSE Pop
    /\ UNCHANGED <<prog, open_files, with_prefix, exit_func, call_ret, variables, types,
                   loop_stack, actions, log, calls, evald, exc,
                   loop_upper_bound>>

\* ------------------------------------------------------------ If_Statement
\* piece["guard"] of an Else piece (None)
NoGuard == [e |-> "noguard"]
\* If_Statement.eval: for piece in self.pieces, the guard of the next piece
IfPiece ==
    /\ At("If", "start")
    /\ IF Top.i >= Len(Top.s.pieces)
       THEN /\ stack' = Pop
            /\ UNCHANGED <<evald, exc>>
       ELSE LET piece == Top.s.pieces[Top.i + 1]
                guarded == piece.guard.e # "noguard"
                guard == IF guarded THEN EvalArg(piece.guard, variables)
                         ELSE BoolV(TRUE)
            IN  /\ evald' = IF guarded THEN Append(evald, piece.guard) ELSE evald
                /\ IF IsExc(guard)
                   THEN /\ exc' = guard.t
                        /\ UNCHANGED stack
                   ELSE /\ stack' = SetTop(IF Truthy(guard)
                                           THEN [Top EXCEPT !.pc = "body",
                                                            !.i = Top.i + 1,
                                                            !.j = 1]
                                           ELSE [Top EXCEPT !.i = Top.i + 1])
                        /\ exc' = "none"
    /\ UNCHANGED <<prog, open_files, with_prefix, exit_func, call_ret, variables, types,
                   loop_stack, actions, log, calls, loop_upper_bound>>

\* (variant: no break after the body of the piece taken)
IfBody_NoBreak ==
    /\ At("If", "body")
    /\ LET body == Top.s.pieces[Top.i].body
       IN  stack' = IF Top.j <= Len(body)
                    THEN Append(SetTop([Top EXCEPT !.j = Top.j + 1]),
                                Frame(body[Top.j]))
                    ELSE SetTop([Top EXCEPT !.pc = "start"])
    /\ UNCHANGED <<prog, open_files, with_prefix, exit_func, call_ret, variables, types,
                   loop_stack, actions, log, calls, evald, exc,
                   loop_upper_bound>>

\* for stmt in piece["body"]: stmt.eval(context); break
IfBody ==
    /\ At("If", "body")
    /\ LET body == Top.s.pieces[Top.i].body
       IN  stack' = IF Top.j <= Len(body)
                    THEN Append(SetTop([Top EXCEPT !.j = Top.j + 1]),
                                Frame(body[Top.j]))
                    ELSE Pop
    /\ UNCHANGED <<prog, open_files, with_prefix, exit_func, call_ret, variables, types,
                   loop_stack, actions, log, calls, evald, exc,
                   loop_upper_bound>>

\* ------------------------------------------------------ If_Statement_Macro
\* (variant: the last piece is run)
ThenPart_Last(pieces) == pieces[Len(pieces)]
\* then_part = self.pieces[0]
ThenPart(pieces) == pieces[1]

\* If_Statement_Macro.eval: For now just run the then block
IfMacro ==
    /\ At("IfMacro", "start")
    /\ LET body == ThenPart(Top.s.pieces).body
       IN  stack' = IF Top.j < Len(body)
                    THEN Append(SetTop([Top EXCEPT !.j = Top.j + 1]),
                                Frame(body[Top.j + 1]))
                    ELSE Pop
    /\ UNCHANGED <<prog, open_files, with_prefix, exit_func, call_ret, variables, types,
                   loop_stack, actions, log, calls, evald, exc,
                   loop_upper_bound>>

\* ---------------------------------------------------------- With_Statement
\* cs.index("."): the position of the first dot
FirstDot(cs) == CHOOSE k \in 1..Len(cs) :
                    cs[k] = Dot /\ \A m \in 1..(k - 1) : cs[m] # Dot
\* cs.rindex("."): the position of the last dot
LastDot(cs) == CHOOSE k \in 1..Len(cs) :
                   cs[k] = Dot /\ \A m \in (k + 1)..Len(cs) : cs[m] # Dot
\* (variant: the prefix is cut at its first dot)
WithStrip_First(wp) ==
    IF ~HasDot(wp) THEN <<>> ELSE SubSeq(wp, 1, FirstDot(wp) - 1)
\* Remove the current with prefix: the prefix without its last segment
WithStrip(wp) ==
    IF ~HasDot(wp) THEN <<>> ELSE SubSeq(wp, 1, LastDot(wp) - 1)

\* With_Statement.eval: Track the with prefix
WithStart ==
    /\ At("With", "start")
    /\ with_prefix' = IF Len(with_prefix) > 0
                      THEN with_prefix \o <<Dot>> \o Top.s.env
                      ELSE Top.s.env
    /\ stack' = SetTop([Top EXCEPT !.pc = "body", !.i = 1])
    /\ UNCHANGED <<prog, open_files, exit_func, call_ret, variables, types, loop_stack,
                   actions, log, calls, evald, exc, loop_upper_bound>>

\* for s in self.body: s.eval(context)
WithBody ==
    /\ At("With", "body")
    /\ stack' = IF Top.i <= Len(Top.s.body)
                THEN Append(SetTop([Top EXCEPT !.i = Top.i + 1]),
                            Frame(Top.s.body[Top.i]))
                ELSE SetTop([Top EXCEPT !.pc = "end"])
    /\ UNCHANGED <<prog, open_files, with_prefix, exit_func, call_ret, variables, types,
                   loop_stack, actions, log, calls, evald, exc,
                   loop_upper_bound>>

\* Remove the current with prefix
WithEnd ==
    /\ At("With", "end")
    /\ with_prefix' = WithStrip(with_prefix)
    /\ stack' = Pop
    /\ UNCHANGED <<prog, open_files, exit_func, call_ret, variables, types, loop_stack,
                   actions, log, calls, evald, exc, loop_upper_bound>>

\* ------------------------------------------------------------ Dim_Statement
\* The tokens of one declared variable, as the grammar groups them: the
\* name, "(" and ")" of an array, the type name after As, "=" and the
\* initializer expression.
Tok(k, n, ty, x) == [k |-> k, n |-> n, ty |-> ty, x |-> x]
NameTok(n) == Tok("name", n, "", NoIndex)
SymTok(c) == Tok("sym", <<>>, c, NoIndex)
TypeTok(t) == Tok("type", <<>>, t, NoIndex)
ExprTok(x) == Tok("expr", <<>>, "", x)
\* None, for a type or an initializer that is not there
NoTok == Tok("none", <<>>, "", NoIndex)
\* tok == c, for a text c
IsText(tok, c) == tok.k \in {"sym", "type"} /\ tok.ty = c

\* Dim_Statement.__init__: the shared initializer, taken from the last
\* declared variable
DimInitVal(tokens) ==
    LET last_var == tokens[Len(tokens)]
    IN  IF Len(last_var) >= 3 /\ IsText(last_var[Len(last_var) - 1], "=")
        THEN last_var[Len(last_var)] ELSE NoTok
\* Dim_Statement.__init__: (name, is_array, type) of each declared variable
DimVariables(tokens) ==
    [k \in 1..Len(tokens) |->
        LET var == tokens[k]
        IN  [name |-> var[1].n,
             is_array |-> Len(var) > 1 /\ IsText(var[2], "("),
             type |-> IF Len(var) > 1 /\ ~IsText(var[Len(var)], ")")
                      THEN var[Len(var)] ELSE NoTok]]
DimS(tokens) ==
    [kind |-> "Dim", init_val |-> DimInitVal(tokens),
     variables |-> DimVariables(tokens)]

\* the type context.set records for a type object: the type name, or for
\* an expression object a text that is no type name
TypeText(curr_type) == IF curr_type.k = "type" THEN curr_type.ty ELSE "<expression>"
\* context.set(name, value, var_type): the type table
CtxSetType(tt, name, curr_type) ==
    IF curr_type.k = "none" THEN tt
    ELSE [k \in DOMAIN tt \cup {name} |-> IF k = name THEN TypeText(curr_type) ELSE tt[k]]
\* the initial value a declared type gives: 0 for Long and Integer, '' for
\* String, for any other type object the value of the shared initializer
TypedInit(curr_type, init_val) ==
    IF IsText(curr_type, "String") THEN StrV(<<>>)
    ELSE IF IsText(curr_type, "Long") \/ IsText(curr_type, "Integer") THEN IntV(0)
    ELSE init_val
\* one turn of the loop over the declared variables: the value and the
\* type handed to context.set, or the TypeError of curr_type += " Array" on
\* a type object that is not a text
DimOne(var, init_val) ==
    IF var.type.k = "none" THEN [v |-> init_val, t |-> var.type, ex |-> "none"]
    ELSE IF ~var.is_array
    THEN [v |-> TypedInit(var.type, init_val), t |-> var.type, ex |-> "none"]
    ELSE IF var.type.k = "type"
    THEN [v |-> ListV(<<>>), t |-> TypeTok(var.type.ty \o " Array"), ex |-> "none"]
    ELSE [v |-> init_val, t |-> var.type, ex |-> "TypeError"]
\* for var in self.variables: the tables after the variables from k on
RECURSIVE DimVars(_, _, _, _, _)
DimVars(vs, k, init_val, vt, tt) ==
    IF k > Len(vs) THEN [vt |-> vt, tt |-> tt, ex |-> "none"]
    ELSE LET r == DimOne(vs[k], init_val)
         IN  IF r.ex # "none" THEN [vt |-> vt, tt |-> tt, ex |-> r.ex]
             ELSE DimVars(vs, k + 1, init_val,
                          CtxSet(vt, vs[k].name, r.v),
                          CtxSetType(tt, vs[k].name, r.t))
\* Dim_Statement.eval
DimStatement ==
    /\ At("Dim", "start")
    /\ LET s == Top.s
           has_init == s.init_val.k # "none"
           init_val == IF has_init THEN EvalArg(s.init_val.x, variables) ELSE StrV(<<>>)
           r == DimVars(s.variables, 1, init_val, variables, types)
       IN  /\ evald' = IF has_init THEN Append(evald, s.init_val.x) ELSE evald
           /\ IF IsExc(init_val)
              THEN /\ exc' = init_val.t
                   /\ UNCHANGED <<variables, types, stack>>
              ELSE /\ variables' = r.vt
                   /\ types' = r.tt
                   /\ exc' = r.ex
                   /\ stack' = IF r.ex = "none" THEN Pop ELSE stack
    /\ UNCHANGED <<prog, open_files, with_prefix, exit_func, call_ret, loop_stack,
                   actions, log, calls, loop_upper_bound>>

\* ------------------------------------------------- File_Open, Print_Statement
\* the table with the entry of the handle key set to entry
PutFile(files, key, entry) ==
    [k \in DOMAIN files \cup {key} |-> IF k = key THEN entry ELSE files[k]]
\* File_Open.eval: the value of the variable of that name when there is
\* one, else the file name itself; the entry is made anew
FileOpen ==
    /\ At("FileOpen", "start")
    /\ LET s == Top.s
           name0 == EvalArg(Lit(StrV(s.file_name)), variables)
           got == CtxGet(variables, s.file_name)
           name == IF got.t \in {"KeyError", "AssertionError"} THEN name0 ELSE got
       IN  /\ open_files' = PutFile(open_files, s.file_id.v.s,
                                    [name |-> name, contents |-> <<>>])
           /\ evald' = Append(evald, Lit(StrV(s.file_name)))
    /\ stack' = Pop
    /\ UNCHANGED <<prog, with_prefix, exit_func, call_ret, variables, types,
                   loop_stack, actions, log, calls, exc, loop_upper_bound>>

\* (variant: the characters of a text are written as they are)
PrintItems_Chars(data) ==
    IF IsStr(data) THEN [k \in 1..Len(data.s) |-> StrV(<<data.s[k]>>)]
    ELSE IF IsList(data) THEN data.l ELSE <<>>
\* what the loops of Print append: ord(c) of each character of a text, each
\* element of a list
PrintItems(data) ==
    IF IsStr(data) THEN [k \in 1..Len(data.s) |-> IntV(data.s[k])]
    ELSE IF IsList(data) THEN data.l ELSE <<>>
\* Print_Statement.eval
PrintStatement ==
    /\ At("Print", "start")
    /\ LET s == Top.s
           file_id == EvalArg(s.file_id, variables)
           data == EvalArg(s.value, variables)
           items == PrintItems(data)
           handled == IsStr(data) \/ IsList(data)
           raised == IF IsExc(file_id) THEN file_id.t
                     ELSE IF IsExc(data) THEN data.t
                     ELSE IF items # <<>> /\ file_id.s \notin DOMAIN open_files
                     THEN "KeyError" ELSE "none"
       IN  /\ evald' = evald \o (IF IsExc(file_id) THEN <<s.file_id>>
                                 ELSE <<s.file_id, s.value>>)
           /\ exc' = raised
           /\ open_files' =
                 IF raised = "none" /\ items # <<>>
                 THEN PutFile(open_files, file_id.s,
                         [open_files[file_id.s] EXCEPT !.contents = @ \o items])
                 ELSE open_files
           /\ log' = IF raised = "none" /\ ~handled
                     THEN Append(log, LogRec("error", "Unhandled Put() data type to Print",
                                             file_id.s, data))
                     ELSE log
           /\ stack' = IF raised = "none" THEN Pop ELSE stack
    /\ UNCHANGED <<prog, with_prefix, exit_func, call_ret, variables, types,
                   loop_stack, actions, calls, loop_upper_bound>>

\* ------------------------------------------------------ procedure evaluator
\* The caller of the statements: evaluates the statements of the procedure
\* body in order, and returns when one has set the function-exit flag.
ProcRun ==
    /\ At("Proc", "start")
    /\ stack' = IF Top.i < Len(Top.s.statements) /\ ~exit_func
                THEN CallEval("start", Top.i + 1, Top.s.statements[Top.i + 1])
                ELSE Pop
    /\ UNCHANGED <<prog, open_files, with_prefix, exit_func, call_ret, variables, types,
                   loop_stack, actions, log, calls, evald, exc,
                   loop_upper_bound>>

\* An exception leaves the eval call of a frame that has no handler for it.
Unwind ==
    /\ exc # "none"
    /\ stack # <<>>
    /\ ~(Top.s.kind = "ForEach" /\ Top.pc = "check")
    /\ stack' = Pop
    /\ UNCHANGED <<prog, open_files, with_prefix, exit_func, call_ret, variables, types,
                   loop_stack, actions, log, calls, evald, exc,
                   loop_upper_bound>>

\* ---------------------------------------------------------------- programs
CallS(name, params) == [kind |-> "Call", name |-> name, params |-> params]
LetS(name, index, x) ==
    [kind |-> "Let", name |-> name, index |-> index, expression |-> x]
ForS(name, a, b, step, body) ==
    [kind |-> "For", name |-> name, start_value |-> a, end_value |-> b,
     step_value |-> step, statements |-> body]
ForEachS(item, container, body) ==
    [kind |-> "ForEach", item |-> item, container |-> container, statements |-> body]
WhileS(loop_type, guard, body) ==
    [kind |-> "While", loop_type |-> loop_type, guard |-> guard, body |-> body]
DoS(loop_type, guard, body) ==
    [kind |-> "Do", loop_type |-> loop_type, guard |-> guard, body |-> body]
\* a Select_Case: its Case_Clause and its body
SelectCaseS(case_val, body) == [case_val |-> case_val, body |-> body]
SelectS(select_val, cases) ==
    [kind |-> "Select", select_val |-> select_val, cases |-> cases]
ExitForS == [kind |-> "ExitFor"]
ExitWhileS == [kind |-> "ExitWhile"]
ExitFunctionS == [kind |-> "ExitFunction"]
\* a piece of an If: its guard (NoGuard for Else) and its body
PieceS(guard, body) == [guard |-> guard, body |-> body]
IfS(pieces) == [kind |-> "If", pieces |-> pieces]
IfMacroS(pieces) == [kind |-> "IfMacro", pieces |-> pieces]
WithS(env, body) == [kind |-> "With", env |-> env, body |-> body]
ProcS(body) == [kind |-> "Proc", statements |-> body]
FileOpenS(file_name, file_id) ==
    [kind |-> "FileOpen", file_name |-> file_name, file_id |-> file_id]
PrintS(file_id, value) == [kind |-> "Print", file_id |-> file_id, value |-> value]
NoVars == [k \in {} |-> NoneV]
NoTypes == [k \in {} |-> "None"]
NoFiles == [k \in {} |-> [name |-> NoneV, contents |-> <<>>]]
I(n) == Lit(IntV(n))
\* the sequences over S of length lo..hi
SeqsOf(S, lo, hi) == UNION {[1..n -> S] : n \in lo..hi}

N_aP == <<97, 46, 112>>             \* a.p
N_aQ == <<97, 46, 113>>             \* a.q
N_oT == <<111, 46, 116>>            \* o.t
N_c == <<99>>                       \* c
N_d == <<100>>                      \* d
N_P == <<80>>                       \* P
N_A == <<65>>                       \* A
N_B == <<66>>                       \* B
N_n == <<110>>                      \* n
N_s == <<115>>                      \* s

\* For i = a To b [Step st]: o.m i
ForPrograms ==
    { [fam |-> "for", a |-> a, b |-> b, st |-> st, dbg |-> TRUE, L |-> L,
       body |-> <<ForS(N_i, I(a), I(b), IF st = 0 THEN NoStep ELSE I(st),
                       <<CallS(N_oM, <<Var(N_i)>>)>>)>>,
       vt |-> NoVars, tt |-> NoTypes] :
      a \in (0 - 2)..MaxIdx, b \in (0 - 1)..MaxEnd, st \in 0..2,
      L \in {0 - 1, 0, 2} }

\* the case clauses of the Select programs: range lo To hi, set of members
\* ms, singleton v, Else
Desc(c, a, b, ms) == [c |-> c, a |-> a, b |-> b, ms |-> ms]
RangeCase(lo, hi) == Desc("range", lo, hi, <<>>)
SetCase(ms) == Desc("set", 0, 0, ms)
SingleCase(v) == Desc("single", v, 0, <<>>)
ElseCase == Desc("else", 0, 0, <<>>)
\* the Case_Clause the parser constructs for a clause
ParseCase(d) ==
    CASE d.c = "range" -> CaseClause(<<I(d.a), I(d.b)>>, TRUE)
      [] d.c = "set" -> CaseClause([k \in 1..Len(d.ms) |-> I(d.ms[k])], FALSE)
      [] d.c = "single" -> CaseClause(<<I(d.a)>>, FALSE)
      [] d.c = "else" -> CaseClause(<<ElseTok>>, FALSE)

\* the statement of the inner loop body that leaves the loop: none (x < 0),
\* a bare Exit For (x = 0), or Select Case j: Case x: Exit For: o.t 0
ExitAt(x) ==
    IF x < 0 THEN <<>>
    ELSE IF x = 0 THEN <<ExitForS>>
    ELSE <<SelectS(Var(N_j),
             <<SelectCaseS(ParseCase(Desc("single", x, 0, <<>>)),
                           <<ExitForS, CallS(N_oT, <<I(0)>>)>>)>>)>>
\* For i = 1 To n: a.p i: For j = 1 To m: o.m j: <exit>: o.t j: Next: a.q i
NestPrograms ==
    { [fam |-> "nest", n |-> n, m |-> m, x |-> x, dbg |-> TRUE, L |-> 0,
       body |-> <<ForS(N_i, I(1), I(n), NoStep,
                    <<CallS(N_aP, <<Var(N_i)>>),
                      ForS(N_j, I(1), I(m), NoStep,
                           <<CallS(N_oM, <<Var(N_j)>>)>> \o ExitAt(x)
                             \o <<CallS(N_oT, <<Var(N_j)>>)>>),
                      CallS(N_aQ, <<Var(N_i)>>)>>)>>,
       vt |-> NoVars, tt |-> NoTypes] :
      n \in 0..MaxNest, m \in 0..MaxNest, x \in (0 - 1)..MaxNest }

\* a loop of each kind around a body; the While and Do loops count the
\* variable cnt up to 2
ExitOf(kind) == IF kind \in {"For", "ForEach"} THEN ExitForS ELSE ExitWhileS
Count(cnt) == LetS(cnt, NoIndex, Add(Var(cnt), I(1)))
LoopOf(kind, idx, cnt, body) ==
    CASE kind = "For" -> ForS(idx, I(1), I(2), NoStep, body)
      [] kind = "ForEach" -> ForEachS(idx, Lit(ListV(<<IntV(1), IntV(2)>>)), body)
      [] kind = "While" -> WhileS("While", Lt(Var(cnt), I(2)), <<Count(cnt)>> \o body)
      [] kind = "Until" -> WhileS("Until", Lt(I(1), Var(cnt)), <<Count(cnt)>> \o body)
      [] kind = "DoWhile" -> DoS("While", Lt(Var(cnt), I(2)), <<Count(cnt)>> \o body)
      [] kind = "DoUntil" -> DoS("Until", Lt(I(1), Var(cnt)), <<Count(cnt)>> \o body)
LoopKinds == {"For", "ForEach", "While", "Until", "DoWhile", "DoUntil"}
\* an outer loop of kind k1 around an inner loop of kind k2; x2, x1: the
\* inner, the outer body executes an Exit; c0: where the counters start
LoopPrograms ==
    { [fam |-> "loops", k1 |-> k1, k2 |-> k2, x1 |-> x1, x2 |-> x2, c0 |-> c0,
       dbg |-> TRUE, L |-> 0,
       body |-> <<LoopOf(k1, N_i, N_c,
                    <<LetS(N_d, NoIndex, I(c0)),
                      LoopOf(k2, N_j, N_d,
                             <<CallS(N_oM, <<>>)>>
                               \o (IF x2 THEN <<ExitOf(k2)>> ELSE <<>>)
                               \o <<CallS(N_oT, <<>>)>>)>>
                      \o (IF x1 THEN <<ExitOf(k1)>> ELSE <<>>)
                      \o <<CallS(N_aQ, <<>>)>>)>>,
       vt |-> [k \in {N_c} |-> IntV(c0)], tt |-> NoTypes] :
      k1 \in LoopKinds, k2 \in LoopKinds, x1 \in BOOLEAN, x2 \in BOOLEAN,
      c0 \in {0, 2} }

CasePool == {RangeCase(1, 5), SetCase(<<7, 8, 9>>), SingleCase(10), ElseCase,
             SingleCase(8)}
ClaimedCases == <<RangeCase(1, 5), SetCase(<<7, 8, 9>>), SingleCase(10), ElseCase>>
\* Select Case v: each case k with the body o.m k
SelectPrograms ==
    { [fam |-> "select", v |-> v, cs |-> cs, dbg |-> TRUE, L |-> 0,
       body |-> <<SelectS(I(v),
                    [k \in 1..Len(cs) |->
                        SelectCaseS(ParseCase(cs[k]), <<CallS(N_oM, <<I(k)>>)>>)])>>,
       vt |-> NoVars, tt |-> NoTypes] :
      v \in 0..MaxSel, cs \in SeqsOf(CasePool, 1, MaxCases) \cup {ClaimedCases} }

\* a statement that raises: a Let whose expression fails to evaluate, a
\* MsgBox without arguments (IndexError)
Failing(f) == IF f = "let" THEN LetS(N_x, NoIndex, Fail("KeyError"))
              ELSE CallS(N_MsgBox, <<>>)
\* a loop of kind k, or a With block, around a body
BlockOf(k, idx, cnt, body) ==
    IF k = "With" THEN WithS(N_A, body) ELSE LoopOf(k, idx, cnt, body)
\* a loop of each kind, or a With block, whose body raises after o.m
ErrPrograms ==
    { [fam |-> "err", k1 |-> k1, f |-> f, dbg |-> TRUE, L |-> 0,
       body |-> <<BlockOf(k1, N_i, N_c,
                    <<CallS(N_oM, <<>>), Failing(f), CallS(N_oT, <<>>)>>),
                  CallS(N_aQ, <<>>)>>,
       vt |-> [k \in {N_c} |-> IntV(0)], tt |-> NoTypes] :
      k1 \in LoopKinds \cup {"With"}, f \in {"let", "msgbox"} }

Alphabet == {0, 65, 66}
Texts == SeqsOf(Alphabet, 0, MaxStrLen)
DeclaredTypes == {"Byte Array", "String", "Long", "None"}
TypesOf(name, ty) == IF ty = "None" THEN NoTypes ELSE [k \in {name} |-> ty]
\* x = s: y = x, with x declared as tx and y as ty
LetPrograms ==
    { [fam |-> "let", s |-> s, tx |-> tx, ty |-> ty, dbg |-> TRUE, L |-> 0,
       body |-> <<LetS(N_x, NoIndex, Lit(StrV(s))), LetS(N_y, NoIndex, Var(N_x))>>,
       vt |-> NoVars,
       tt |-> [k \in {N_x, N_y} |-> IF k = N_x THEN tx ELSE ty]] :
      s \in Texts, tx \in DeclaredTypes, ty \in DeclaredTypes }

\* what the variable of an indexed assignment holds before it
Elements == {IntV(0), IntV(7)}
Targets == {ListV(l) : l \in SeqsOf(Elements, 0, MaxStrLen)}
             \cup {IntV(7), NoneV, StrV(<<65, 66>>), StrV(<<>>)}
Assigned == {IntV(9), IntV(66), IntV(300), StrV(<<65>>), StrV(<<>>), StrV(<<67, 68>>), NoneV}
\* x(i) = v, on a Context where x holds old or (absent) is not there
SetItemPrograms ==
    { [fam |-> "setitem", old |-> oa[1], absent |-> oa[2], i |-> i, v |-> v,
       dbg |-> TRUE, L |-> 0,
       body |-> <<LetS(N_x, I(i), Lit(v))>>,
       vt |-> IF oa[2] THEN NoVars ELSE [k \in {N_x} |-> oa[1]], tt |-> NoTypes] :
      oa \in {<<old, FALSE>> : old \in Targets} \cup {<<NoneV, TRUE>>},
      i \in (0 - 2)..MaxIndex, v \in Assigned }

\* the entries of a list assigned to a typed variable
Entries == {IntV(65), IntV(300), StrV(<<66>>), StrV(<<>>), StrV(<<67, 68>>), NoneV}
Shapes == {ListV(l) : l \in SeqsOf(Entries, 0, MaxStrLen)} \cup {StrV(<<65>>), IntV(7)}
\* y = v, with y declared as ty
ShapePrograms ==
    { [fam |-> "shape", val |-> v, ty |-> ty, dbg |-> TRUE, L |-> 0,
       body |-> <<LetS(N_y, NoIndex, Lit(v))>>,
       vt |-> NoVars, tt |-> TypesOf(N_y, ty)] :
      v \in Shapes, ty \in DeclaredTypes }

\* the declarations of a Dim: array or not, a type name or none, an
\* initializer or none
TypeNames == {"", "Long", "Integer", "String"}
Decl(a, ty, init) == [arr |-> a, ty |-> ty, init |-> init]
DeclShapes == {Decl(a, ty, init) : a \in BOOLEAN, ty \in TypeNames, init \in {0, 5}}
\* the declarations that follow the first one of a Dim
MoreShapes == {Decl(FALSE, "", 0), Decl(FALSE, "", 5), Decl(FALSE, "String", 0),
               Decl(TRUE, "Long", 0)}
\* the name of the k-th declared variable: d1, d2, ..
D(k) == <<100, 48 + k>>
\* the tokens of the declaration d of the variable n
DeclTokens(n, d) ==
    <<NameTok(n)>>
      \o (IF d.arr THEN <<SymTok("("), SymTok(")")>> ELSE <<>>)
      \o (IF d.ty # "" THEN <<TypeTok(d.ty)>> ELSE <<>>)
      \o (IF d.init # 0 THEN <<SymTok("="), ExprTok(I(d.init))>> ELSE <<>>)
\* Dim d1 .., d2 ..
DimPrograms ==
    { [fam |-> "dim", decls |-> ds, dbg |-> TRUE, L |-> 0,
       body |-> <<DimS([k \in 1..Len(ds) |-> DeclTokens(D(k), ds[k])])>>,
       vt |-> NoVars, tt |-> NoTypes] :
      ds \in {<<d1>> \o more : d1 \in DeclShapes,
                                more \in SeqsOf(MoreShapes, 0, MaxDecls - 1)} }

\* the file handles #1, #2 and the names of the files opened under them: a
\* plain name, and the name of a variable that holds a text
Handles == {1, 2}
H(k) == Lit(StrV(<<35, 48 + k>>))
N_f == <<102>>
FileName(k) == IF k = 1 THEN N_f ELSE N_n
PrintData == {StrV(<<65, 66>>), StrV(<<>>), ListV(<<IntV(7)>>), IntV(7)}
PrintOps == {PrintS(H(k), Lit(dt)) : k \in Handles, dt \in PrintData}
\* the Open statements of the handles in hs, in the order of the handles
Opens(hs) ==
    (IF 1 \in hs THEN <<FileOpenS(FileName(1), H(1))>> ELSE <<>>)
      \o (IF 2 \in hs THEN <<FileOpenS(FileName(2), H(2))>> ELSE <<>>)
\* Open .. As #k for the handles of opened: Print .. : [Open f As #1]
FilePrograms ==
    { [fam |-> "file", opened |-> hs, prints |-> ps, reopen |-> ro, dbg |-> TRUE, L |-> 0,
       body |-> Opens(hs) \o ps \o (IF ro THEN Opens({1}) ELSE <<>>),
       vt |-> [k \in {N_n} |-> StrV(<<65>>)], tt |-> NoTypes] :
      hs \in SUBSET Handles, ps \in SeqsOf(PrintOps, 1, MaxPrints), ro \in BOOLEAN }

N_VBABar == <<86, 66, 65, 46, 66, 97, 114>>                    \* VBA.Bar
N_BarS == <<66, 97, 114, 36>>                                  \* Bar$
N_BrBar == <<91, 66, 97, 114, 93>>                             \* [Bar]
N_oWrite == <<111, 46, 87, 114, 105, 116, 101>>                \* o.Write
CallNames == {N_FooBar, N_Bar, N_VBABar, N_BarS, N_BrBar, N_oM, N_Run,
              N_ApplicationRun, N_MsgBox, N_msgbox, N_oWrite}
ProcNames == {N_Bar, N_FooBar, N_Run}
Args == {IntV(1), IntV(2), StrV(<<65, 0>>)}
\* name args, on a Context that holds the procedures ps, all of behaviour k
CallPrograms ==
    { [fam |-> "call", name |-> nm, args |-> as, ps |-> ps, k |-> k, dbg |-> TRUE, L |-> 0,
       body |-> <<CallS(nm, [m \in 1..Len(as) |-> Lit(as[m])])>>,
       vt |-> [p \in ps |-> ProcV(k)], tt |-> NoTypes] :
      nm \in CallNames, as \in SeqsOf(Args, 0, MaxArgs), ps \in SUBSET ProcNames,
      k \in {0, 1} }

\* Run / Application.Run with a first argument and up to MaxArgs more
RunTargets == {StrV(N_P), StrV(N_Bar), IntV(1)}
RunPrograms ==
    { [fam |-> "call", name |-> nm, args |-> <<tg>> \o rest, ps |-> ps, k |-> k,
       dbg |-> TRUE, L |-> 0,
       body |-> <<CallS(nm, [m \in 1..(Len(rest) + 1) |-> Lit((<<tg>> \o rest)[m])])>>,
       vt |-> [p \in ps |-> ProcV(k)], tt |-> NoTypes] :
      nm \in {N_Run, N_ApplicationRun}, tg \in RunTargets,
      rest \in SeqsOf({IntV(1), IntV(2)}, 0, MaxArgs),
      ps \in SUBSET {N_P, N_Bar, N_Run}, k \in {0, 1} }

WithNames == {N_A, N_B}
\* With envs[k]: a.p k: <the With of envs[k+1]>: a.q k
RECURSIVE WithNest(_, _)
WithNest(envs, k) ==
    WithS(envs[k],
          <<CallS(N_aP, <<I(k)>>)>>
            \o (IF k < Len(envs) THEN <<WithNest(envs, k + 1)>> ELSE <<>>)
            \o <<CallS(N_aQ, <<I(k)>>)>>)
\* nested With blocks, and one more With block after them
WithPrograms ==
    { [fam |-> "with", envs |-> envs, dbg |-> TRUE, L |-> 0,
       body |-> <<WithNest(envs, 1), WithS(N_B, <<CallS(N_oM, <<>>)>>)>>,
       vt |-> NoVars, tt |-> NoTypes] :
      envs \in SeqsOf(WithNames, 1, MaxWith) }

N_MSGBOX == <<77, 83, 71, 66, 79, 88>>                         \* MSGBOX
\* MsgBox in several spellings, on a Context that may hold procedures of
\* that name
MsgBoxPrograms ==
    { [fam |-> "call", name |-> nm, args |-> as, ps |-> ps, k |-> k,
       dbg |-> TRUE, L |-> 0,
       body |-> <<CallS(nm, [m \in 1..Len(as) |-> Lit(as[m])])>>,
       vt |-> [p \in ps |-> ProcV(k)], tt |-> NoTypes] :
      nm \in {N_MsgBox, N_msgbox, N_MSGBOX},
      as \in SeqsOf({IntV(1), StrV(<<65>>)}, 0, MaxArgs),
      ps \in SUBSET {N_MsgBox, N_msgbox, N_MSGBOX}, k \in {0, 1} }

\* the containers of the For-Each programs: what the container expression
\* is, and what the variable c holds
Containers == {"list", "text", "int", "none", "fails", "name of list",
               "name of int"}
ContainerExpr(c) ==
    CASE c = "list" -> Lit(ListV(<<IntV(1), IntV(2)>>))
      [] c = "text" -> Lit(StrV(<<65, 66>>))
      [] c = "int" -> I(5)
      [] c = "none" -> Lit(NoneV)
      [] c = "fails" -> Fail("TypeError")
      [] OTHER -> Lit(StrV(N_c))
ContainerVars(c) ==
    CASE c = "name of list" -> [k \in {N_c} |-> ListV(<<IntV(1), IntV(2)>>)]
      [] c = "name of int" -> [k \in {N_c} |-> IntV(7)]
      [] OTHER -> NoVars
\* For Each x In <container>: o.m x: Next: a.q, alone (o = 0) or as the
\* body of a For loop that runs o times
EachPrograms ==
    { [fam |-> "each", c |-> c, o |-> o, dbg |-> TRUE, L |-> 0,
       body |-> LET each == <<ForEachS(N_x, ContainerExpr(c),
                                       <<CallS(N_oM, <<Var(N_x)>>)>>),
                              CallS(N_aQ, <<>>)>>
                IN  IF o = 0 THEN each
                    ELSE <<ForS(N_i, I(1), I(o), NoStep, each)>>,
       vt |-> ContainerVars(c), tt |-> NoTypes] :
      c \in Containers, o \in 0..MaxOuter }

\* the statements body, alone or as the body of a block that is entered
BlockKinds == {"none", "If", "ElseIf", "Else", "Select", "With"}
InBlock(b, body) ==
    CASE b = "none" -> body
      [] b = "If" -> <<IfS(<<PieceS(Lit(BoolV(TRUE)), body)>>)>>
      [] b = "ElseIf" -> <<IfS(<<PieceS(Lit(BoolV(FALSE)), <<CallS(N_aP, <<>>)>>),
                                PieceS(I(1), body)>>)>>
      [] b = "Else" -> <<IfS(<<PieceS(I(0), <<CallS(N_aP, <<>>)>>),
                              PieceS(NoGuard, body)>>)>>
      [] b = "Select" -> <<SelectS(I(1), <<SelectCaseS(ParseCase(SingleCase(1)),
                                                       body)>>)>>
      [] b = "With" -> <<WithS(N_A, body)>>
\* a loop of kind k: o.m: <block b of: Exit: o.t>: a.q, and after it a.p
BlockExitPrograms ==
    { [fam |-> "blockexit", k |-> k, b |-> b, dbg |-> TRUE, L |-> 0,
       body |-> <<LoopOf(k, N_i, N_c,
                    <<CallS(N_oM, <<>>)>>
                      \o InBlock(b, <<ExitOf(k), CallS(N_oT, <<>>)>>)
                      \o <<CallS(N_aQ, <<>>)>>),
                  CallS(N_aP, <<>>)>>,
       vt |-> [v \in {N_c} |-> IntV(0)], tt |-> NoTypes] :
      k \in LoopKinds, b \in BlockKinds }

\* a loop of kind k or a block b around o.m: Exit Function: o.t, and a.q
\* after it
ExitFuncPrograms ==
    { [fam |-> "exitfn", k |-> k, dbg |-> TRUE, L |-> 0,
       body |-> (IF k \in LoopKinds
                 THEN <<LoopOf(k, N_i, N_c,
                          <<CallS(N_oM, <<>>), ExitFunctionS, CallS(N_oT, <<>>)>>)>>
                 ELSE InBlock(k, <<CallS(N_oM, <<>>), ExitFunctionS,
                                   CallS(N_oT, <<>>)>>))
                \o <<CallS(N_aQ, <<>>)>>,
       vt |-> [v \in {N_c} |-> IntV(0)], tt |-> NoTypes] :
      k \in LoopKinds \cup BlockKinds }

\* For i = a To b Step st around an empty body or an empty With block, the
\* logger above the debug level
StepPrograms ==
    { [fam |-> "step", a |-> a, b |-> b, st |-> st, w |-> w, dbg |-> FALSE,
       L |-> L,
       body |-> <<ForS(N_i, I(a), I(b), I(st),
                       IF w THEN <<WithS(N_A, <<>>)>> ELSE <<>>)>>,
       vt |-> NoVars, tt |-> NoTypes] :
      a \in 1..MaxIdx, b \in 1..MaxEnd, st \in 0..2, w \in BOOLEAN,
      L \in {1, 2} }

\* For i = 1 To n Step s: o.m i: [i = i + d]: [n = 0]: [s = 5], with n and s
\* holding b and st before the loop
IndexPrograms ==
    { [fam |-> "index", b |-> b, st |-> st, d |-> d, en |-> en, es |-> es,
       dbg |-> TRUE, L |-> 0,
       body |-> <<ForS(N_i, I(1), Var(N_n), Var(N_s),
                    <<CallS(N_oM, <<Var(N_i)>>)>>
                      \o (IF d > 0 THEN <<LetS(N_i, NoIndex, Add(Var(N_i), I(d)))>>
                          ELSE <<>>)
                      \o (IF en THEN <<LetS(N_n, NoIndex, I(0))>> ELSE <<>>)
                      \o (IF es THEN <<LetS(N_s, NoIndex, I(5))>> ELSE <<>>))>>,
       vt |-> [k \in {N_n, N_s} |-> IF k = N_n THEN IntV(b) ELSE IntV(st)],
       tt |-> NoTypes] :
      b \in 2..MaxEnd, st \in 1..2, d \in 0..2, en \in BOOLEAN, es \in BOOLEAN }

\* the end values that are not integers: texts, None, a list, floats
NonIntegers == {StrV(<<65>>), StrV(<<>>), NoneV, ListV(<<IntV(3)>>), FloatV(5),
                FloatV(4)}
\* For i = a To <a value that is not an integer>: o.m i
EndPrograms ==
    { [fam |-> "end", a |-> a, e |-> e, dbg |-> TRUE, L |-> L,
       body |-> <<ForS(N_i, I(a), Lit(e), NoStep, <<CallS(N_oM, <<Var(N_i)>>)>>)>>,
       vt |-> NoVars, tt |-> NoTypes] :
      a \in (0 - 2)..MaxIdx, e \in NonIntegers, L \in {0, 2} }

\* For Each x In <the sequence xs, written out or held by the variable c>:
\* o.m x
ItemPrograms ==
    { [fam |-> "items", xs |-> xs, named |-> nd, dbg |-> TRUE, L |-> 0,
       body |-> <<ForEachS(N_x, IF nd THEN Lit(StrV(N_c)) ELSE Lit(ListV(xs)),
                           <<CallS(N_oM, <<Var(N_x)>>)>>)>>,
       vt |-> IF nd THEN [k \in {N_c} |-> ListV(xs)] ELSE NoVars,
       tt |-> NoTypes] :
      xs \in SeqsOf({IntV(1), IntV(2)}, 0, MaxItems), nd \in BOOLEAN }

GuardKinds == {"While", "Until", "DoWhile", "DoUntil"}
\* a While or Do loop, with While c < 2 or Until 1 < c, around c = c + 1:
\* o.m c: [Exit Do], c holding c0 before the loop
GuardPrograms ==
    { [fam |-> "guard", k |-> k, c0 |-> c0, x |-> x, dbg |-> TRUE, L |-> 0,
       body |-> <<LoopOf(k, N_i, N_c,
                    <<CallS(N_oM, <<Var(N_c)>>)>>
                      \o (IF x THEN <<ExitWhileS>> ELSE <<>>))>>,
       vt |-> [v \in {N_c} |-> IntV(c0)], tt |-> NoTypes] :
      k \in GuardKinds, c0 \in 0..MaxIdx, x \in BOOLEAN }

\* a For or Do loop around d = 0: <a loop of kind k around o.m: e: o.t>:
\* a.q, e an Exit For or an Exit Do whatever the kind k
CrossExitPrograms ==
    { [fam |-> "xexit", k1 |-> k1, k |-> k, e |-> e, dbg |-> TRUE, L |-> 0,
       body |-> <<LoopOf(k1, N_i, N_c,
                    <<LetS(N_d, NoIndex, I(0)),
                      LoopOf(k, N_j, N_d,
                             <<CallS(N_oM, <<>>), [kind |-> e],
                               CallS(N_oT, <<>>)>>),
                      CallS(N_aQ, <<>>)>>)>>,
       vt |-> [v \in {N_c} |-> IntV(0)], tt |-> NoTypes] :
      k1 \in {"For", "DoUntil"}, k \in LoopKinds, e \in {"ExitFor", "ExitWhile"} }

\* the name of the variable the k-th guard reads: g1, g2, ...
G(k) == <<103, 48 + k>>
GuardVals == {IntV(0), IntV(1), StrV(<<>>)}
\* If g1 Then o.m 1 ElseIf g2 Then o.m 2 ... [Else o.m n+1] End If, or the
\* same as an #If, the variable gk holding gs[k]
IfPrograms ==
    { [fam |-> "if", gs |-> gs, els |-> el, macro |-> mc, dbg |-> TRUE, L |-> 0,
       body |-> LET pieces ==
                      [k \in 1..Len(gs) |->
                          PieceS(Var(G(k)), <<CallS(N_oM, <<I(k)>>)>>)]
                      \o (IF el THEN <<PieceS(NoGuard,
                                              <<CallS(N_oM, <<I(Len(gs) + 1)>>)>>)>>
                          ELSE <<>>)
                IN  <<IF mc THEN IfMacroS(pieces) ELSE IfS(pieces)>>,
       vt |-> [v \in {G(k) : k \in 1..Len(gs)} |->
                  gs[CHOOSE k \in 1..Len(gs) : G(k) = v]],
       tt |-> NoTypes] :
      gs \in SeqsOf(GuardVals, 1, MaxPieces), el \in BOOLEAN, mc \in BOOLEAN }

\* the select values and the bounds of the range programs: integers,
\* floats (2.5, 3.0, 5.5; 1.5, 5.5), a bool, a text, None
RangeVals == {IntV(0), IntV(1), IntV(3), IntV(5), IntV(6), FloatV(5), FloatV(6),
              FloatV(11), BoolV(TRUE), StrV(<<65>>), NoneV}
LowerBounds == {IntV(1), FloatV(3)}
UpperBounds == {IntV(5), FloatV(11), IntV(0)}
\* Select Case v: Case lo To hi: o.m 1: Case Else: o.m 2
RangePrograms ==
    { [fam |-> "range", v |-> v, lo |-> lo, hi |-> hi, dbg |-> TRUE, L |-> 0,
       body |-> <<SelectS(Lit(v),
                    <<SelectCaseS(CaseClause(<<Lit(lo), Lit(hi)>>, TRUE),
                                  <<CallS(N_oM, <<I(1)>>)>>),
                      SelectCaseS(CaseClause(<<ElseTok>>, FALSE),
                                  <<CallS(N_oM, <<I(2)>>)>>)>>)>>,
       vt |-> NoVars, tt |-> NoTypes] :
      v \in RangeVals, lo \in LowerBounds, hi \in UpperBounds }

\* case clauses with an expression that fails: a range with a bound that
\* raises or has no integer value, a set with a member that raises among
\* the members 2 and 3
FailingClauses ==
    { CaseClause(<<Fail("KeyError"), I(5)>>, TRUE),
      CaseClause(<<I(1), Fail("TypeError")>>, TRUE),
      CaseClause(<<I(1), Lit(StrV(<<65>>))>>, TRUE),
      CaseClause(<<Lit(NoneV), I(5)>>, TRUE),
      CaseClause(<<Fail("KeyError"), I(2)>>, FALSE),
      CaseClause(<<I(2), Fail("KeyError")>>, FALSE),
      CaseClause(<<I(2), Fail("TypeError"), I(3)>>, FALSE),
      CaseClause(<<I(2), I(3), Fail("ValueError")>>, FALSE) }
\* Select Case v: <a failing clause>: o.m 1: Case Else: o.m 2
BadCasePrograms ==
    { [fam |-> "badcase", v |-> v, cc |-> cc, dbg |-> TRUE, L |-> 0,
       body |-> <<SelectS(I(v),
                    <<SelectCaseS(cc, <<CallS(N_oM, <<I(1)>>)>>),
                      SelectCaseS(CaseClause(<<ElseTok>>, FALSE),
                                  <<CallS(N_oM, <<I(2)>>)>>)>>)>>,
       vt |-> NoVars, tt |-> NoTypes] :
      v \in 1..MaxIdx, cc \in FailingClauses }

N_Else == <<69, 108, 115, 101>>                               \* Else
\* the expressions of the clauses below: numbers, and the text "Else"
ClauseExprs == {I(1), I(2), Lit(StrV(N_Else))}
\* the token shapes of the grammar: lo To hi, Else, a list of expressions
ClauseShapes ==
    { CaseClause(<<lo, hi>>, TRUE) : lo \in ClauseExprs, hi \in ClauseExprs }
    \cup { CaseClause(<<ElseTok>>, FALSE) }
    \cup { CaseClause(ts, FALSE) : ts \in SeqsOf(ClauseExprs, 1, 2) }
\* Select Case v: <a clause of each shape>: o.m 1
ClassPrograms ==
    { [fam |-> "class", v |-> v, cc |-> cc, dbg |-> TRUE, L |-> 0,
       body |-> <<SelectS(I(v), <<SelectCaseS(cc, <<CallS(N_oM, <<I(1)>>)>>)>>)>>,
       vt |-> NoVars, tt |-> NoTypes] :
      v \in {1, MaxSel}, cc \in ClauseShapes }

Programs == ForPrograms \cup NestPrograms \cup LoopPrograms \cup SelectPrograms
              \cup LetPrograms \cup SetItemPrograms \cup CallPrograms
              \cup ErrPrograms \cup RunPrograms \cup WithPrograms
              \cup MsgBoxPrograms \cup EachPrograms \cup BlockExitPrograms
              \cup ExitFuncPrograms \cup StepPrograms \cup IndexPrograms
              \cup EndPrograms \cup ItemPrograms \cup GuardPrograms
              \cup CrossExitPrograms \cup IfPrograms \cup RangePrograms
              \cup BadCasePrograms \cup ClassPrograms \cup ShapePrograms
              \cup DimPrograms \cup FilePrograms

Init ==
    /\ prog \in Programs
    /\ variables = prog.vt
    /\ types = prog.tt
    /\ loop_stack = <<>>
    /\ actions = <<>>
    /\ log = <<>>
    /\ calls = <<>>
    /\ evald = <<>>
    /\ with_prefix = <<>>
    /\ exit_func = FALSE
    /\ call_ret = NoneV
    /\ open_files = NoFiles
    /\ stack = <<Frame(ProcS(prog.body))>>
    /\ exc = "none"
    /\ loop_upper_bound = prog.L

Next ==
    \/ ProcRun
    \/ DimStatement
    \/ FileOpen
    \/ PrintStatement
    \/ CallStatement
    \/ CallLookup
    \/ LetStatement
    \/ ForStart
    \/ ForTest
    \/ ForBody
    \/ ForCheck
    \/ ForEnd
    \/ ExitFor
    \/ ExitFunction
    \/ ForEachStart
    \/ ForEachNext
    \/ ForEachBody
    \/ ForEachCheck
    \/ ForEachExcept
    \/ ForEachEnd
    \/ WhileStart
    \/ WhileTest
    \/ WhileBody
    \/ WhileCheck
    \/ WhileEnd
    \/ DoStart
    \/ DoBody
    \/ DoCheck
    \/ DoEnd
    \/ SelectStart
    \/ SelectCase
    \/ SelectBody
    \/ IfPiece
    \/ IfBody
    \/ IfMacro
    \/ WithStart
    \/ WithBody
    \/ WithEnd
    \/ Unwind

Spec == Init /\ [][Next]_vars

\* The runs of the For programs with a Step: the same steps, taken as long as
\* one is left to take (the interpreter is one thread that runs each eval to
\* its end).
StepInit == Init /\ prog \in StepPrograms
StepNext ==
    \/ ProcRun
    \/ ForStart
    \/ ForTest
    \/ ForBody
    \/ ForCheck
    \/ ForEnd
    \/ WithStart
    \/ WithBody
    \/ WithEnd
FairSpec == StepInit /\ [][StepNext]_vars /\ WF_vars(StepNext)

\* the run is over: every eval call has returned
Done == stack = <<>> /\ exc = "none"

\* ================================================================ properties
IsPrefix(x, y) == Len(x) <= Len(y) /\ x = SubSeq(y, 1, Len(x))
\* the record of an o.m k call in the action log
Act(src, k) == [cat |-> "Object.Method Call", desc |-> <<IntV(k)>>, src |-> src]
\* the statement of the program has been evaluated (or has raised)
Acted == stack = <<>> \/ exc # "none" \/ (Len(stack) = 1 /\ stack[1].i >= 1)

\* ---- C1
ForExpected(a, b) == [k \in 1..Max(0, b - a + 1) |-> Act(N_oM, a + k - 1)]
NoCap == prog.L <= 0 \/ prog.b <= prog.L
\* C1: a For from a to b with step 1 and no cap in effect runs its body
\* exactly max(0, b-a+1) times, with the index a, a+1, ..., b in that order,
\* and never with the index b+1.
C1_ForRunsStartToEnd ==
    (prog.fam = "for" /\ prog.st \in {0, 1} /\ NoCap) =>
        /\ IsPrefix(actions, ForExpected(prog.a, prog.b))
        /\ exc = "none"
        /\ (stack = <<>> => actions = ForExpected(prog.a, prog.b))
C1_Witness ==
    /\ Done /\ prog.fam = "for" /\ prog.st = 0 /\ prog.L = 0
    /\ prog.a = 1 /\ prog.b = 5
    /\ actions = [k \in 1..5 |-> Act(N_oM, k)]

\* ---- C2
\* C2: with a positive loop upper bound L and an end value above L, the body
\* of a For runs at most L times, whatever the start and the step.
C2_CapBoundsIterations ==
    (prog.fam = "for" /\ prog.L > 0 /\ prog.b > prog.L) => Len(actions) <= prog.L

\* ---- C3
RECURSIVE InnerFrom(_, _, _)
InnerFrom(j, last, x) ==
    IF j > last THEN <<>>
    ELSE <<Act(N_oM, j), Act(N_oT, IF j = x THEN 0 ELSE j)>> \o InnerFrom(j + 1, last, x)
\* what one run of the inner loop records: without an Exit every iteration,
\* with a bare Exit the first o.m, with the Exit at j = x the iterations up to x
InnerExpected(m, x) ==
    IF x < 0 THEN InnerFrom(1, m, x)
    ELSE IF x = 0 THEN (IF m >= 1 THEN <<Act(N_oM, 1)>> ELSE <<>>)
    ELSE InnerFrom(1, Min(m, x), x)
RECURSIVE NestFrom(_, _, _, _)
NestFrom(i, n, m, x) ==
    IF i > n THEN <<>>
    ELSE <<Act(N_aP, i)>> \o InnerExpected(m, x) \o <<Act(N_aQ, i)>>
           \o NestFrom(i + 1, n, m, x)
\* C3: an Exit For in the inner of two nested For loops ends the inner loop
\* only: the entry of the outer loop is still true when the inner loop has
\* returned, the outer loop runs the rest of its body and all its iterations,
\* and the inner loop starts afresh in each of them.
C3_ExitForInnermostOnly ==
    (prog.fam = "nest") =>
        /\ exc = "none"
        /\ (Len(stack) = 2 /\ Top.pc \in {"test", "body", "check"}
               => loop_stack = <<TRUE>>)
        /\ IsPrefix(actions, NestFrom(1, prog.n, prog.m, prog.x))
        /\ (stack = <<>> => /\ actions = NestFrom(1, prog.n, prog.m, prog.x)
                            /\ loop_stack = <<>>)
C3_Witness ==
    /\ Done /\ prog.fam = "nest" /\ prog.n = 2 /\ prog.m = 3 /\ prog.x = 2
    /\ actions = <<Act(N_aP, 1), Act(N_oM, 1), Act(N_oT, 1), Act(N_oM, 2),
                   Act(N_oT, 0), Act(N_aQ, 1),
                   Act(N_aP, 2), Act(N_oM, 1), Act(N_oT, 1), Act(N_oM, 2),
                   Act(N_oT, 0), Act(N_aQ, 2)>>

\* ---- C4
LoopStatements == {"For", "ForEach", "While", "Do"}
\* the loops currently executing: the frames of loop statements past the
\* entry of their eval
ExecutingLoops ==
    {k \in 1..Len(stack) : stack[k].s.kind \in LoopStatements /\ stack[k].pc # "start"}
LoopFamilies == {"for", "nest", "loops"}
C4_Depth ==
    (prog.fam \in LoopFamilies) =>
        /\ exc = "none"
        /\ Len(loop_stack) = Cardinality(ExecutingLoops)
C4_Pop ==
    (/\ prog.fam \in LoopFamilies
     /\ stack # <<>>
     /\ Top.s.kind \in LoopStatements
     /\ Len(stack') < Len(stack))
    => /\ loop_stack' = Top.ls0
       /\ Len(loop_stack') = Len(loop_stack) - 1
\* C4: in every program of nested For, For-Each, While and Do loops the depth
\* of the loop-exit stack equals the number of loops currently executing, and
\* every loop pops exactly one entry however it ends, leaving the stack as it
\* was before the loop statement.
C4_LoopStackDiscipline == [](C4_Depth) /\ [][C4_Pop]_vars
\* an inner Do loop left by Exit Do inside an outer For-Each loop
C4_Witness ==
    /\ prog.fam = "loops" /\ prog.k1 = "ForEach" /\ prog.k2 = "DoUntil" /\ prog.x2
    /\ Len(stack) = 3 /\ Top.s.kind = "Do" /\ Top.pc = "end"
    /\ loop_stack = <<TRUE, FALSE>>

\* ---- C5
SelVal == IntV(prog.v)
Matching(k) == Truthy(CaseClauseEval(ParseCase(prog.cs[k]), SelVal, prog.vt).r)
NoMatch == \A k \in 1..Len(prog.cs) : ~Matching(k)
FirstMatch == CHOOSE k \in 1..Len(prog.cs) :
                  Matching(k) /\ \A m \in 1..(k - 1) : ~Matching(m)
\* the predicates evaluated: one "checking" record each
Checked == Len(SelectSeq(log, LAMBDA r : r.m = "eval select: checking"))
\* C5: a Select-Case runs the body of the first case whose predicate matches
\* and stops: no later predicate is evaluated, no later body runs; when no
\* case matches no body runs and the Context is left alone.
C5_SelectFirstMatchOnly ==
    (prog.fam = "select") =>
        /\ exc = "none"
        /\ Checked <= (IF NoMatch THEN Len(prog.cs) ELSE FirstMatch)
        /\ IsPrefix(actions, IF NoMatch THEN <<>> ELSE <<Act(N_oM, FirstMatch)>>)
        /\ (stack = <<>> =>
               /\ actions = (IF NoMatch THEN <<>> ELSE <<Act(N_oM, FirstMatch)>>)
               /\ Checked = (IF NoMatch THEN Len(prog.cs) ELSE FirstMatch)
               /\ variables = prog.vt)
\* the value 8 with the cases 7,8,9 and then 8: both match, the first runs
C5_Witness ==
    /\ Done /\ prog.fam = "select" /\ prog.v = 8
    /\ prog.cs = <<SetCase(<<7, 8, 9>>), SingleCase(8), ElseCase>>
    /\ actions = <<Act(N_oM, 1)>> /\ Checked = 1

\* ---- C6
\* what a clause is to match
Sem(d, v) ==
    CASE d.c = "else" -> TRUE
      [] d.c = "range" -> d.a <= v /\ v <= d.b
      [] d.c = "set" -> \E k \in 1..Len(d.ms) : d.ms[k] = v
      [] d.c = "single" -> d.a = v
SemMatches == {k \in 1..Len(prog.cs) : Sem(prog.cs[k], prog.v)}
SemFirst == CHOOSE k \in SemMatches : \A m \in SemMatches : k <= m
\* C6: a set-case matches iff the select value is one of its members, a
\* singleton-case iff it equals its expression, an else-case always; with the
\* cases 1 To 5 / 7,8,9 / 10 / Else the value 8 runs the set-case body only.
C6_CasePredicates ==
    (prog.fam = "select" /\ stack = <<>>) =>
        /\ exc = "none"
        /\ actions = (IF SemMatches = {} THEN <<>> ELSE <<Act(N_oM, SemFirst)>>)
C6_Witness ==
    /\ Done /\ prog.fam = "select" /\ prog.v = 8 /\ prog.cs = ClaimedCases
    /\ actions = <<Act(N_oM, 2)>>

\* ---- C7
\* C7: a non-indexed Let of a text of length n to a "Byte Array" variable
\* stores a sequence of length 2n: the code of each character followed by 0.
C7_StringToByteArray ==
    (prog.fam = "let" /\ prog.tx = "Byte Array" /\ N_x \in DOMAIN variables) =>
        LET l == variables[N_x].l
        IN  /\ IsList(variables[N_x])
            /\ Len(l) = 2 * Len(prog.s)
            /\ \A k \in 1..Len(prog.s) :
                   l[2 * k - 1] = IntV(prog.s[k]) /\ l[2 * k] = IntV(0)
C7_Witness ==
    /\ prog.fam = "let" /\ prog.tx = "Byte Array" /\ prog.s = <<65, 66>>
    /\ N_x \in DOMAIN variables
    /\ variables[N_x] = ListV(<<IntV(65), IntV(0), IntV(66), IntV(0)>>)

\* ---- C8
IsAscii(cs) == \A k \in 1..Len(cs) : cs[k] \in 0..127
\* C8: an ASCII text assigned to a "Byte Array" variable and from there to a
\* "String" variable is stored in the String variable unchanged, the empty
\* text included.
C8_RoundTrip ==
    (/\ prog.fam = "let" /\ prog.tx = "Byte Array" /\ prog.ty = "String"
     /\ IsAscii(prog.s) /\ Acted) =>
        /\ exc = "none"
        /\ (N_y \in DOMAIN variables => variables[N_y] = StrV(prog.s))
        /\ (stack = <<>> => N_y \in DOMAIN variables)
C8_Witness ==
    /\ Done /\ prog.fam = "let" /\ prog.tx = "Byte Array" /\ prog.ty = "String"
    /\ prog.s = <<65, 66>>
    /\ variables[N_x] = ListV(<<IntV(65), IntV(0), IntV(66), IntV(0)>>)
    /\ variables[N_y] = StrV(<<65, 66>>)

\* ---- C9
\* C9: x(i) = v with i >= 0 on a sequence of length n (a scalar or an absent
\* variable counting as the empty sequence) stores a sequence of length
\* max(n, i+1) with v at i, the previous elements elsewhere below n, and 0 at
\* n..i-1.
C9_IndexedListAssign ==
    (/\ prog.fam = "setitem" /\ prog.i >= 0 /\ stack = <<>>
     /\ (prog.absent \/ prog.old.t \in {"list", "int", "none"})) =>
        LET old == IF prog.absent \/ ~IsList(prog.old) THEN <<>> ELSE prog.old.l
            n == Len(old)
            new == variables[N_x]
        IN  /\ exc = "none"
            /\ IsList(new)
            /\ Len(new.l) = Max(n, prog.i + 1)
            /\ \A k \in 0..(Len(new.l) - 1) :
                   new.l[k + 1] = IF k = prog.i THEN prog.v
                                  ELSE IF k < n THEN old[k + 1]
                                  ELSE IntV(0)
C9_Witness ==
    /\ Done /\ prog.fam = "setitem" /\ ~prog.absent /\ prog.old = ListV(<<>>)
    /\ prog.i = 5 /\ prog.v = IntV(9)
    /\ variables[N_x] = ListV(<<IntV(0), IntV(0), IntV(0), IntV(0), IntV(0), IntV(9)>>)

\* ---- C10
Plain(cs) == \A k \in 1..Len(cs) : cs[k] \notin {36, 91, 93, 39, 34}
Suffix == AfterLastDot(prog.name)
InvocationsOf(name) == SelectSeq(calls, LAMBDA c : c.name = name)
\* C10: a Call to a dotted name that is not in the Context, while the
\* procedure named by the part after its last dot is, invokes that procedure
\* exactly once with the evaluated arguments of the call.
C10_DottedCallNormalized ==
    (/\ prog.fam = "call" /\ HasDot(prog.name) /\ Plain(prog.name)
     /\ prog.name \notin prog.ps /\ Suffix \in prog.ps /\ Acted) =>
        /\ InvocationsOf(Suffix) = <<[name |-> Suffix, params |-> prog.args]>>
        /\ (prog.k = 0 => exc = "none" /\ calls = InvocationsOf(Suffix))
C10_Witness ==
    /\ Done /\ prog.fam = "call" /\ prog.name = N_FooBar /\ prog.ps = {N_Bar}
    /\ prog.args = <<IntV(1), IntV(2)>> /\ prog.k = 0
    /\ calls = <<[name |-> N_Bar, params |-> <<IntV(1), IntV(2)>>]>>

\* ---- C11
NotFoundLogged == \E k \in 1..Len(log) : log[k].m = "Procedure not found"
WithFrames == SelectSeq(stack, LAMBDA f : f.s.kind = "With" /\ f.pc # "start")
\* the names of the first n of them, joined by dots
RECURSIVE Dotted(_, _)
Dotted(fs, n) ==
    IF n = 0 THEN <<>>
    ELSE IF n = 1 THEN fs[1].s.env
    ELSE Dotted(fs, n - 1) \o <<Dot>> \o fs[n].s.env
\* the number of dotted segments of a prefix
Segments(wp) ==
    IF wp = <<>> THEN 0 ELSE 1 + Cardinality({k \in 1..Len(wp) : wp[k] = Dot})
\* C12: the with-prefix is the names of the With blocks being executed,
\* outermost first, joined by dots: X alone for a block entered with the
\* empty prefix, old.X otherwise; its number of segments is the nesting
\* depth; each block found on entry the prefix that is there again once it
\* has been left, and the prefix is empty when the run is over.
C12_WithPrefixDiscipline ==
    (prog.fam = "with") =>
        /\ exc = "none"
        /\ with_prefix = Dotted(WithFrames, Len(WithFrames))
        /\ Segments(with_prefix) = Len(WithFrames)
        /\ \A k \in 1..Len(WithFrames) :
               /\ WithFrames[k].wp0 = Dotted(WithFrames, k - 1)
               /\ Dotted(WithFrames, k) =
                      IF WithFrames[k].wp0 = <<>> THEN WithFrames[k].s.env
                      ELSE WithFrames[k].wp0 \o <<Dot>> \o WithFrames[k].s.env
        /\ (stack = <<>> => with_prefix = <<>>)
\* With A: With B left again, the block of A still being executed
C12_Witness ==
    /\ prog.fam = "with" /\ prog.envs = <<N_A, N_B>>
    /\ actions = <<Act(N_aP, 1), Act(N_aP, 2), Act(N_aQ, 2)>>
    /\ Len(WithFrames) = 1
    /\ with_prefix = N_A

\* ---- C13
\* no lookup of the call finds a procedure: not the exact name, not the
\* normalized name, not the first argument of a Run
Unresolvable ==
    /\ prog.fam = "call"
    /\ ~IsMsgBox(prog.name)
    /\ prog.name \notin prog.ps
    /\ NormalizeName(prog.name) \notin prog.ps
    /\ prog.name \in {N_Run, N_ApplicationRun} =>
           \/ prog.args = <<>>
           \/ ~IsStr(prog.args[1])
           \/ prog.args[1].s \notin prog.ps
\* C13: a Call whose target no lookup resolves, whatever its name and its
\* arguments (none at all included), raises nothing: the failure is logged
\* as "Procedure not found", nothing is invoked and the run goes on.
C13_CallNeverRaises ==
    (Unresolvable /\ Acted) =>
        /\ exc = "none"
        /\ calls = <<>>
        /\ NotFoundLogged

\* ---- C14
MethodCalls == SelectSeq(actions, LAMBDA a : a.cat = "Object.Method Call")
\* the lookup of the call has begun or is about to
InLookup == Len(stack) = 2 /\ Top.s.kind = "Call" /\ Top.pc = "lookup"
\* C14: a Call with a dotted name other than MsgBox records one
\* Object.Method Call action under its name, and no other action; the record
\* is there before the lookup invokes, logs or raises anything, and stays
\* the only one whether the target is found by its exact name, by its
\* normalized name, by an indirect Run or not at all. A Call with a name
\* without a dot, other than MsgBox, records no action.
C14_OneActionPerDottedCall ==
    (prog.fam = "call" /\ ~IsMsgBox(prog.name)) =>
        /\ Len(actions) <= (IF HasDot(prog.name) THEN 1 ELSE 0)
        /\ actions = MethodCalls
        /\ \A k \in 1..Len(actions) : actions[k].src = prog.name
        /\ (InLookup \/ Acted \/ calls # <<>> \/ log # <<>>) =>
               Len(actions) = (IF HasDot(prog.name) THEN 1 ELSE 0)
\* Application.Run "P", 1 resolved by the indirect Run
C14_Witness ==
    /\ Done /\ prog.fam = "call" /\ prog.name = N_ApplicationRun
    /\ prog.args = <<StrV(N_P), IntV(1)>> /\ prog.ps = {N_P} /\ prog.k = 0
    /\ calls = <<[name |-> N_P, params |-> <<IntV(1)>>]>>
    /\ actions = <<[cat |-> "Object.Method Call",
                    desc |-> <<StrV(N_P), IntV(1)>>, src |-> N_ApplicationRun]>>

\* ---- C15
\* C15: a Call of MsgBox, in any letter case and with a first argument,
\* records one Display Message action carrying that argument and nothing
\* else, returns 1, and neither invokes nor looks for a procedure, also
\* when the Context holds a procedure named MsgBox.
C15_MsgBoxShortCircuit ==
    (prog.fam = "call" /\ Lower(prog.name) = N_msgbox /\ prog.args # <<>>
     /\ Acted) =>
        /\ exc = "none"
        /\ actions = <<[cat |-> "Display Message", desc |-> <<prog.args[1]>>,
                        src |-> N_MsgBox]>>
        /\ call_ret = IntV(1)
        /\ calls = <<>>
        /\ log = <<>>
C15_Witness ==
    /\ Done /\ prog.fam = "call" /\ prog.name = N_msgbox
    /\ prog.ps = {N_MsgBox, N_msgbox} /\ prog.k = 0
    /\ prog.args = <<StrV(<<65>>), IntV(1)>>
    /\ actions = <<[cat |-> "Display Message", desc |-> <<StrV(<<65>>)>>,
                    src |-> N_MsgBox]>>
    /\ call_ret = IntV(1) /\ calls = <<>>

\* ---- C16
\* C16: a For-Each whose container expression fails to evaluate, or
\* evaluates to a value that cannot be iterated, raises nothing, runs its
\* body not once, and returns with the loop stack as it found it.
C16_ForEachBadContainer ==
    (prog.fam = "each" /\ prog.c \in {"int", "none", "fails", "name of int"}) =>
        /\ exc = "none"
        /\ ~\E k \in 1..Len(actions) : actions[k].src = N_oM
        /\ (stack = <<>> => loop_stack = <<>>)
\* (the same for the containers that evaluate and cannot be iterated)
NotIterableIsSilent ==
    (prog.fam = "each" /\ prog.c \in {"int", "none", "name of int"}) =>
        /\ exc = "none"
        /\ ~\E k \in 1..Len(actions) : actions[k].src = N_oM
        /\ (stack = <<>> =>
               /\ loop_stack = <<>>
               /\ Len(actions) = (IF prog.o = 0 THEN 1 ELSE prog.o))

\* ---- C17
\* C17: when a statement of the body of a For, For-Each, While or Do loop
\* or of a With block raises, the loop still pops its entry of the loop
\* stack and the With block still strips its segment of the prefix: once the
\* statement has been left, both are what they were before it.
C17_RestoredOnAbnormalExit ==
    (prog.fam = "err" /\ stack = <<>>) =>
        /\ loop_stack = <<>>
        /\ with_prefix = <<>>

\* ---- C18
\* the record of a call src without parameters in the action log
ActN(src) == [cat |-> "Object.Method Call", desc |-> <<>>, src |-> src]
\* C18: once an Exit For / Exit Do has been evaluated in an iteration of a
\* loop, nothing more of the loop body runs and no iteration follows, also
\* when the Exit is a statement of an If, Select-Case or With block of the
\* body and further statements follow it in that block: of o.m: <Exit:
\* o.t>: a.q in the loop and a.p after it, o.m and a.p run, once each.
C18_NothingRunsAfterExit ==
    (prog.fam = "blockexit") =>
        /\ IsPrefix(actions, <<ActN(N_oM), ActN(N_aP)>>)
        /\ (stack = <<>> => actions = <<ActN(N_oM), ActN(N_aP)>>)
\* (the same for an Exit that is a statement of the loop body itself)
DirectExitEndsLoop ==
    (prog.fam = "blockexit" /\ prog.b = "none") =>
        /\ exc = "none"
        /\ IsPrefix(actions, <<ActN(N_oM), ActN(N_aP)>>)
        /\ (stack = <<>> => actions = <<ActN(N_oM), ActN(N_aP)>>)
\* (an Exit inside a block: the rest of the block runs, then the loop ends)
BlockExitRunsBlock ==
    (prog.fam = "blockexit" /\ prog.b # "none" /\ stack = <<>>) =>
        /\ exc = "none"
        /\ actions = <<ActN(N_oM), ActN(N_oT), ActN(N_aP)>>

\* ---- C19
\* C19: once an Exit Function has set the function-exit flag in the body of
\* a loop or of an If, Select or With block, the enclosing statement runs no
\* further statement of its body and no further iteration, and the
\* procedure evaluator runs nothing after it: of <o.m: Exit Function: o.t>
\* and a.q after it, only o.m runs. The Exit Function itself sets the flag
\* and leaves the loop stack as it is.
C19_FunctionExitPropagates ==
    (prog.fam = "exitfn") =>
        /\ exc = "none"
        /\ IsPrefix(actions, <<ActN(N_oM)>>)
        /\ (stack = <<>> => exit_func /\ actions = <<ActN(N_oM)>>)
\* (the Exit Function statement: the flag, and nothing of the loop stack)
ExitFunctionSetsFlagOnly ==
    [][(stack # <<>> /\ Top.s.kind = "ExitFunction")
          => (exit_func' /\ loop_stack' = loop_stack /\ with_prefix' = with_prefix
              /\ variables' = variables /\ actions' = actions)]_vars
\* (at the top level of the procedure body the evaluator stops at the flag)
ProcedureStopsAtFlag ==
    (prog.fam = "exitfn" /\ prog.k = "none" /\ stack = <<>>) =>
        actions = <<ActN(N_oM)>>

\* ---- C20
\* C20: with a positive loop upper bound a For statement whose body
\* terminates itself terminates, whatever integers its start, end and step
\* are: every run of For i = a To b Step st comes to its end.
C20_ForTerminates == (prog.fam = "step") ~> (stack = <<>>)
\* (with a step of 1 or more every such run does end)
PositiveStepTerminates == (prog.fam = "step" /\ prog.st >= 1) ~> (stack = <<>>)

\* ---- C21
\* the number of times the expression x was handed to eval_arg
Evals(x) == Len(SelectSeq(evald, LAMBDA e : e = x))
\* the iterations of a loop that tests index <= b on the value the body
\* left and adds st to it, the body adding d
RECURSIVE IndexRuns(_, _, _, _)
IndexRuns(i, b, st, d) ==
    IF i > b THEN <<>>
    ELSE <<Act(N_oM, i)>> \o IndexRuns(i + d + st, b, st, d)
\* C21: a For evaluates its start, end and step expressions once, before
\* the first iteration, and re-reads the index variable for every test and
\* every increment: a body that adds d to the index makes the iterations
\* 1, 1+d+st, ... up to the end value, and a body that assigns the
\* variables of the end and step expressions changes neither the end nor
\* the step of the loop.
C21_BoundsOnceIndexReread ==
    (prog.fam = "index") =>
        /\ exc = "none"
        /\ Evals(I(1)) <= 1 /\ Evals(Var(N_n)) <= 1 /\ Evals(Var(N_s)) <= 1
        /\ (actions # <<>> =>
               Evals(I(1)) = 1 /\ Evals(Var(N_n)) = 1 /\ Evals(Var(N_s)) = 1)
        /\ IsPrefix(actions, IndexRuns(1, prog.b, prog.st, prog.d))
        /\ (stack = <<>> =>
               /\ actions = IndexRuns(1, prog.b, prog.st, prog.d)
               /\ Evals(Var(N_n)) = 1 /\ Evals(Var(N_s)) = 1)
\* For i = 1 To n (5) Step s (1): o.m i: i = i + 1: n = 0: s = 5
C21_Witness ==
    /\ Done /\ prog.fam = "index" /\ prog.b = 5 /\ prog.st = 1 /\ prog.d = 1
    /\ prog.en /\ prog.es
    /\ variables[N_n] = IntV(0) /\ variables[N_s] = IntV(5)
    /\ actions = <<Act(N_oM, 1), Act(N_oM, 3), Act(N_oM, 5)>>

\* ---- C22
\* C22: a For whose end expression evaluates to a value that is not an
\* integer runs as if the end were 0: with step 1, not once for a start of
\* 1 or more, for the values start..0 for a start of 0 or less, and it
\* raises nothing.
C22_NonIntegerEndIsZero ==
    (prog.fam = "end") =>
        /\ exc = "none"
        /\ IsPrefix(actions, ForExpected(prog.a, 0))
        /\ (stack # <<>> /\ Top.s.kind = "For" /\ Top.pc # "start"
               => Top.end = IntV(0))
        /\ (stack = <<>> => actions = ForExpected(prog.a, 0))
\* For i = -2 To "A": the iterations -2, -1, 0
C22_Witness ==
    /\ Done /\ prog.fam = "end" /\ prog.a = 0 - 2 /\ prog.e = StrV(<<65>>)
    /\ actions = <<Act(N_oM, 0 - 2), Act(N_oM, 0 - 1), Act(N_oM, 0)>>

\* ---- C23
\* what the body o.m x records for the elements xs
ItemRuns(xs) == [k \in 1..Len(xs) |-> Act(N_oM, xs[k].n)]
\* C23: a For-Each over a sequence of n elements, its body without Exit and
\* without failure, runs the body n times; whenever the body is about to
\* run for the k-th time the item variable holds the k-th element.
C23_ForEachInOrder ==
    (prog.fam = "items") =>
        /\ exc = "none"
        /\ IsPrefix(actions, ItemRuns(prog.xs))
        /\ (Len(stack) = 2 /\ Top.pc = "body" /\ Top.i = 1 =>
               /\ Len(actions) < Len(prog.xs)
               /\ variables[N_x] = prog.xs[Len(actions) + 1])
        /\ (stack = <<>> => actions = ItemRuns(prog.xs))
\* For Each x In [2, 1, 2]
C23_Witness ==
    /\ Done /\ prog.fam = "items" /\ ~prog.named
    /\ prog.xs = <<IntV(2), IntV(1), IntV(2)>>
    /\ actions = <<Act(N_oM, 2), Act(N_oM, 1), Act(N_oM, 2)>>
    /\ variables[N_x] = IntV(2)

\* ---- C24
\* the guard evaluations of the loop of a guard program so far
GuardEvals == Evals(prog.body[1].guard)
TestFirst == prog.k \in {"While", "Until"}
\* the body runs of the loop: as long as c < 2 (While c < 2, Until 1 < c),
\* at least one for a Do loop, one at most with an Exit Do in the body
GuardRuns ==
    LET n == IF TestFirst THEN Max(0, 2 - prog.c0) ELSE Max(1, 2 - prog.c0)
    IN  IF prog.x THEN Min(n, 1) ELSE n
\* C24: a While loop evaluates its guard before each body run and runs the
\* body not once when the guard is false at first; a Do loop evaluates its
\* guard only after a body run and runs the body at least once; an Until
\* loop goes on exactly while its guard is falsy; after an Exit Do the
\* guard is not evaluated again.
C24_GuardPlacement ==
    (prog.fam = "guard") =>
        /\ exc = "none"
        /\ IsPrefix(actions, [k \in 1..GuardRuns |-> Act(N_oM, prog.c0 + k)])
        /\ IF TestFirst THEN Len(actions) <= GuardEvals
           ELSE GuardEvals <= Len(actions)
        /\ (stack = <<>> =>
               /\ Len(actions) = GuardRuns
               /\ GuardEvals =
                      IF prog.x THEN (IF TestFirst THEN 1 ELSE 0)
                      ELSE IF TestFirst THEN GuardRuns + 1 ELSE GuardRuns)
\* Do: c = c + 1: o.m c: Loop Until 1 < c, from c = 0: two runs, two guards
C24_Witness ==
    /\ Done /\ prog.fam = "guard" /\ prog.k = "DoUntil" /\ prog.c0 = 0 /\ ~prog.x
    /\ actions = <<Act(N_oM, 1), Act(N_oM, 2)>>
    /\ GuardEvals = 2

\* ---- C25
\* an Exit For / Exit Do is being evaluated inside a loop
AtExit == Running /\ Top.s.kind \in {"ExitFor", "ExitWhile"} /\ loop_stack # <<>>
\* the effect of the statement on the Context
C25_Effect ==
    AtExit =>
        /\ Len(loop_stack') = Len(loop_stack)
        /\ ~loop_stack'[Len(loop_stack)]
        /\ \A k \in 1..(Len(loop_stack) - 1) : loop_stack'[k] = loop_stack[k]
        /\ UNCHANGED <<variables, types, with_prefix, exit_func, actions>>
\* the inner loop ends in its first iteration, the outer loop runs on
C25_Ends ==
    (prog.fam = "xexit") =>
        /\ exc = "none"
        /\ IsPrefix(actions, <<ActN(N_oM), ActN(N_aQ), ActN(N_oM), ActN(N_aQ)>>)
        /\ (stack = <<>> =>
               /\ actions = <<ActN(N_oM), ActN(N_aQ), ActN(N_oM), ActN(N_aQ)>>
               /\ loop_stack = <<>>)
\* C25: Exit For and Exit Do do the same in a loop of any kind: the top
\* entry of the loop stack becomes false, its depth and the entries below
\* stay, nothing else of the Context changes; either of them ends the
\* innermost running loop, be it a For, For-Each, While or Do loop, and
\* that loop only.
C25_ExitSameInEveryLoop == [](C25_Ends) /\ [][C25_Effect]_vars
\* an Exit Do evaluated in a For loop inside a Do loop
C25_Witness ==
    /\ prog.fam = "xexit" /\ prog.k1 = "DoUntil" /\ prog.k = "For"
    /\ prog.e = "ExitWhile"
    /\ Len(stack) = 3 /\ Top.s.kind = "For" /\ Top.pc = "check"
    /\ loop_stack = <<TRUE, FALSE>>
    /\ actions = <<ActN(N_oM)>>

\* ---- C26
\* the guards handed to the evaluator so far, in order
GuardsEvald == SelectSeq(evald, LAMBDA e : e.e = "var")
TruthyGuards == {k \in 1..Len(prog.gs) : Truthy(prog.gs[k])}
\* the piece an If is to take: the first with a truthy guard, the Else
\* piece when there is none, 0 when there is no Else either
Taken ==
    IF TruthyGuards # {} THEN CHOOSE k \in TruthyGuards : \A m \in TruthyGuards : k <= m
    ELSE IF prog.els THEN Len(prog.gs) + 1
    ELSE 0
\* the guards it is to evaluate: those up to the first truthy one
GuardsDue == [k \in 1..Min(IF Taken = 0 THEN Len(prog.gs) ELSE Taken, Len(prog.gs))
                 |-> Var(G(k))]
\* C26: an If evaluates its guards in declaration order and runs the body
\* of the first piece whose guard is truthy, the Else piece counting as
\* truthy when it is reached, and nothing else: no guard of a later piece
\* is evaluated, one body at most runs, and none when no guard is truthy
\* and there is no Else.
C26_IfFirstTruthyOnly ==
    (prog.fam = "if" /\ ~prog.macro) =>
        /\ exc = "none"
        /\ IsPrefix(GuardsEvald, GuardsDue)
        /\ IsPrefix(actions, IF Taken = 0 THEN <<>> ELSE <<Act(N_oM, Taken)>>)
        /\ (actions # <<>> => GuardsEvald = GuardsDue)
        /\ (stack = <<>> =>
               /\ GuardsEvald = GuardsDue
               /\ actions = (IF Taken = 0 THEN <<>> ELSE <<Act(N_oM, Taken)>>))
\* If 0 .. ElseIf 1 .. ElseIf 1 .. Else: the second body, two guards
C26_Witness ==
    /\ Done /\ prog.fam = "if" /\ ~prog.macro /\ prog.els
    /\ prog.gs = <<IntV(0), IntV(1), IntV(1)>>
    /\ actions = <<Act(N_oM, 2)>>
    /\ GuardsEvald = <<Var(G(1)), Var(G(2))>>

\* ---- C27
\* C27: an #If runs the body of its first branch and only that, whatever
\* the guards are worth: no guard is evaluated and no body of an #ElseIf or
\* #Else branch runs.
C27_MacroIfRunsFirstBranch ==
    (prog.fam = "if" /\ prog.macro) =>
        /\ exc = "none"
        /\ evald \in {<<>>, <<I(1)>>}
        /\ IsPrefix(actions, <<Act(N_oM, 1)>>)
        /\ (stack = <<>> => actions = <<Act(N_oM, 1)>>)
\* #If 0 .. #ElseIf 1 .. #Else: the first body
C27_Witness ==
    /\ Done /\ prog.fam = "if" /\ prog.macro /\ prog.els
    /\ prog.gs = <<IntV(0), IntV(1)>>
    /\ actions = <<Act(N_oM, 1)>>
    /\ GuardsEvald = <<>>

\* ---- C28
\* int(lo) <= v <= int(hi)
Between(v, lo, hi) == PyLe(PyInt(lo), v) /\ PyLe(v, PyInt(hi))
\* C28: the range-case lo To hi matches the select value v iff
\* int(lo) <= v <= int(hi), whatever v is, an integer or not: of Case lo To
\* hi: o.m 1 and Case Else: o.m 2 the first body runs iff v lies between
\* the truncated bounds.
C28_RangeMatchesBetween ==
    (prog.fam = "range" /\ stack = <<>>) =>
        /\ exc = "none"
        /\ actions = <<Act(N_oM, IF Between(prog.v, prog.lo, prog.hi) THEN 1 ELSE 2)>>
\* (for the select values that are integers, floats with an integer value,
\* texts or None the range-case does match iff v lies between the bounds)
RangeMatchesWholeNumbers ==
    (/\ prog.fam = "range" /\ stack = <<>>
     /\ (prog.v.t = "float" => prog.v.n % 2 = 0)) =>
        /\ exc = "none"
        /\ actions = <<Act(N_oM, IF Between(prog.v, prog.lo, prog.hi) THEN 1 ELSE 2)>>

\* ---- C29
\* C29: a range-case with a bound that fails to evaluate and a set-case
\* with a member that fails to evaluate do not match and raise nothing, the
\* set-case also when the select value equals a member that did evaluate:
\* the Select goes on with the next case, here the Else case.
C29_FailingCaseIsNonMatch ==
    (prog.fam = "badcase") =>
        /\ exc = "none"
        /\ IsPrefix(actions, <<Act(N_oM, 2)>>)
        /\ Checked <= 2
        /\ (stack = <<>> => actions = <<Act(N_oM, 2)>> /\ Checked = 2)
\* Select Case 2: Case 2, <fails>, 3: o.m 1: Case Else: o.m 2
C29_Witness ==
    /\ Done /\ prog.fam = "badcase" /\ prog.v = 2
    /\ prog.cc.case_val = <<I(2), Fail("TypeError"), I(3)>>
    /\ evald = <<I(2), I(2), Fail("TypeError"), I(2)>>
    /\ actions = <<Act(N_oM, 2)>>

\* ---- C30
\* the number of the flags test_range, test_set, is_else of a clause that
\* are true
FlagsSet(cc) ==
    (IF cc.test_range THEN 1 ELSE 0) + (IF cc.test_set THEN 1 ELSE 0)
      + (IF cc.is_else THEN 1 ELSE 0)
\* the clause the Select of a class program was evaluated with
ClauseOf == prog.body[1].cases[1].case_val
\* C30: a case clause of any token shape is of exactly one of the classes
\* range, set, else, plain singleton: at most one of test_range, test_set
\* and is_else is true, and the flags the Select was evaluated with are
\* those of the construction.
C30_OneClassPerClause ==
    (prog.fam = "class" /\ stack = <<>>) =>
        /\ ClauseOf = prog.cc
        /\ FlagsSet(prog.cc) <= 1
\* (a clause without a token that reads "else" among other tokens has one
\* class only, and the flags do not change while the Select is evaluated)
OneClassWithoutElseText ==
    (/\ prog.fam = "class"
     /\ (Len(prog.cc.case_val) > 1 =>
            \A k \in 1..Len(prog.cc.case_val) : ~IsElseStr(prog.cc.case_val[k]))) =>
        /\ FlagsSet(prog.cc) <= 1
        /\ (stack # <<>> => stack[1].s.statements[1].cases[1].case_val = prog.cc)

\* ---- C31
\* a value that the string branch of an indexed assignment does not splice
\* in: neither a text nor an integer, or an integer that chr() refuses
Rejected(v) == ~IsStr(v) /\ (IsInt(v) => v.n \notin 0..255)
\* the records of log.error in the log
Errors == SelectSeq(log, LAMBDA r : r.lvl = "error")
\* C31: x(i) = v on a text target with a value that is neither a text nor
\* an integer with a character logs an error and leaves the value of x
\* exactly as it was, for every index, those beyond the length included.
C31_RejectedValueLeavesString ==
    (/\ prog.fam = "setitem" /\ ~prog.absent /\ IsStr(prog.old)
     /\ Rejected(prog.v) /\ stack = <<>>) =>
        /\ exc = "none"
        /\ Errors # <<>>
        /\ variables[N_x] = prog.old
\* (for the indexes up to the length of the text the value is left as it
\* was, and an error is logged for every index)
RejectedValueWithinLength ==
    (/\ prog.fam = "setitem" /\ ~prog.absent /\ IsStr(prog.old)
     /\ Rejected(prog.v) /\ stack = <<>>) =>
        /\ exc = "none"
        /\ Errors # <<>>
        /\ (prog.i <= Len(prog.old.s) => variables[N_x] = prog.old)
        /\ (prog.i > Len(prog.old.s) =>
                variables[N_x] = StrV(prog.old.s \o Repeat(0, prog.i - Len(prog.old.s))))

\* ---- C32
\* the characters an assigned value stands for
CharsOf(v) == IF IsStr(v) THEN v.s ELSE <<v.n>>
\* C32: x(i) = v with i >= 0 on a text target of length n, for every text
\* value v and every integer code v, stores a text of length max(n, i+1)
\* with the character of v at i, the previous characters at the other
\* positions below n, and NUL at n..i-1.
C32_IndexedStringAssign ==
    (/\ prog.fam = "setitem" /\ ~prog.absent /\ IsStr(prog.old) /\ prog.i >= 0
     /\ (IsStr(prog.v) \/ (IsInt(prog.v) /\ prog.v.n \in 0..255))
     /\ stack = <<>>) =>
        LET old == prog.old.s
            n == Len(old)
            new == variables[N_x]
        IN  /\ exc = "none"
            /\ IsStr(new)
            /\ Len(new.s) = Max(n, prog.i + 1)
            /\ <<new.s[prog.i + 1]>> = CharsOf(prog.v)
            /\ \A k \in 0..(Len(new.s) - 1) :
                   k # prog.i => new.s[k + 1] = IF k < n THEN old[k + 1] ELSE 0
\* (for a text value of one character and for an integer code the stored
\* text is as stated)
OneCharacterAssign ==
    (/\ prog.fam = "setitem" /\ ~prog.absent /\ IsStr(prog.old) /\ prog.i >= 0
     /\ ((IsStr(prog.v) /\ Len(prog.v.s) = 1) \/ (IsInt(prog.v) /\ prog.v.n \in 0..255))
     /\ stack = <<>>) =>
        LET old == prog.old.s
            n == Len(old)
            new == variables[N_x]
        IN  /\ exc = "none"
            /\ IsStr(new)
            /\ Len(new.s) = Max(n, prog.i + 1)
            /\ <<new.s[prog.i + 1]>> = CharsOf(prog.v)
            /\ \A k \in 0..(Len(new.s) - 1) :
                   k # prog.i => new.s[k + 1] = IF k < n THEN old[k + 1] ELSE 0

\* ---- C33
\* the characters at the even positions 0, 2, .. of a list of integers
EvenPositions(l) == [k \in 1..((Len(l) + 1) \div 2) |-> l[2 * k - 1].n]
\* the characters of the entries of a list that are not null, in order
RECURSIVE NonNull(_)
NonNull(l) ==
    IF l = <<>> THEN <<>>
    ELSE NonNull(SubSeq(l, 1, Len(l) - 1))
           \o (IF l[Len(l)].t = "none" THEN <<>> ELSE l[Len(l)].s)
\* what the claim says a Let stores in a variable declared as type
Stored(type, v) ==
    IF type = "String" /\ IsList(v)
    THEN IF /\ \A k \in 1..Len(v.l) : IsInt(v.l[k])
            /\ \A k \in 1..Len(EvenPositions(v.l)) : EvenPositions(v.l)[k] \in 0..255
         THEN StrV(EvenPositions(v.l))
         ELSE IF \A k \in 1..Len(v.l) :
                    v.l[k].t = "none" \/ (IsStr(v.l[k]) /\ Len(v.l[k].s) <= 1)
         THEN StrV(NonNull(v.l))
         ELSE v
    ELSE v
\* C33: a non-indexed Let converts by the declared type of its target
\* only. For a String target a list of integers with valid codes is stored
\* as the text of the characters at its even positions, a list of single
\* characters and nulls as the text of its non-null entries, any other list
\* unchanged; for a target declared neither "Byte Array" nor "String" the
\* value is stored unchanged whatever its shape.
C33_CoercionByDeclaredType ==
    (/\ prog.fam = "shape" /\ stack = <<>>
     /\ (prog.ty = "Byte Array" => ~IsStr(prog.val))) =>
        /\ exc = "none"
        /\ variables[N_y] = Stored(prog.ty, prog.val)
\* y = [None, "B"] with y As String stores "B"
C33_Witness ==
    /\ Done /\ prog.fam = "shape" /\ prog.ty = "String"
    /\ prog.val = ListV(<<NoneV, StrV(<<66>>)>>)
    /\ variables[N_y] = StrV(<<66>>)
\* a list that neither decoding converts is stored as it is
C33_WitnessUnconverted ==
    /\ Done /\ prog.fam = "shape" /\ prog.ty = "String"
    /\ prog.val = ListV(<<IntV(300), StrV(<<66>>)>>)
    /\ variables[N_y] = prog.val

\* ---- C34
\* the invocation the stated order of resolution leads to: the procedure
\* under the exact name, else the one under the normalized name, else for
\* Run and Application.Run the one named by the first argument, else none
Resolved ==
    IF prog.name \in prog.ps
    THEN <<[name |-> prog.name, params |-> prog.args]>>
    ELSE IF NormalizeName(prog.name) \in prog.ps
    THEN <<[name |-> NormalizeName(prog.name), params |-> prog.args]>>
    ELSE IF /\ prog.name \in {N_ApplicationRun, N_Run}
            /\ prog.args # <<>> /\ IsStr(prog.args[1]) /\ prog.args[1].s \in prog.ps
    THEN <<[name |-> prog.args[1].s, params |-> Tail(prog.args)]>>
    ELSE <<>>
\* C34: a Call resolves in the stated order: the exact name first, invoked
\* as it is when found; the normalized name only after the exact lookup
\* failed as not-found; the indirect call through the first argument only
\* after both lookups failed and only for Application.Run and Run; for any
\* other name two failed lookups end in the logged "not found" with nothing
\* invoked. So a Call that returns has invoked the first of these that
\* exists, and nothing else, and has logged "not found" iff there is none.
C34_ResolutionOrder ==
    (prog.fam = "call" /\ ~IsMsgBox(prog.name) /\ Done) =>
        /\ calls = Resolved
        /\ NotFoundLogged <=> Resolved = <<>>
\* (when the procedures return normally the order is the stated one)
OrderWhenCalleeReturns ==
    (prog.fam = "call" /\ ~IsMsgBox(prog.name) /\ Done /\ prog.k = 0) =>
        /\ calls = Resolved
        /\ NotFoundLogged <=> Resolved = <<>>

\* ---- C35
\* the value of the shared initializer of the Dim of a dim program
SharedInit ==
    LET last == prog.decls[Len(prog.decls)]
    IN  IF last.init # 0 THEN IntV(last.init) ELSE StrV(<<>>)
\* C35: Dim gives a variable declared As Long or As Integer the value 0
\* and a variable declared As String the value "", whatever the shared
\* initializer evaluates to, and gives every name declared without a type
\* the value of the shared initializer, "" when there is none.
C35_DimInitialValues ==
    (prog.fam = "dim" /\ Done) =>
        \A k \in 1..Len(prog.decls) :
            ~prog.decls[k].arr =>
                variables[D(k)] =
                      IF prog.decls[k].ty \in {"Long", "Integer"} THEN IntV(0)
                      ELSE IF prog.decls[k].ty = "String" THEN StrV(<<>>)
                      ELSE SharedInit
\* (a variable that is not an array and carries no initializer of its own
\* starts as stated, whatever the shared initializer is)
DimWithoutOwnInitializer ==
    (prog.fam = "dim" /\ stack = <<>>) =>
        \A k \in 1..Len(prog.decls) :
            (/\ ~prog.decls[k].arr /\ prog.decls[k].init = 0
             /\ D(k) \in DOMAIN variables) =>
                variables[D(k)] =
                      IF prog.decls[k].ty \in {"Long", "Integer"} THEN IntV(0)
                      ELSE IF prog.decls[k].ty = "String" THEN StrV(<<>>)
                      ELSE SharedInit

\* ---- C36
\* the statements of the procedure body that have returned
Returned == IF stack = <<>> THEN Len(prog.body) ELSE stack[1].i - (IF Len(stack) > 1 THEN 1 ELSE 0)
\* what a Print of the value v adds to the contents of an open file: the
\* codes of a text, the elements of a sequence, nothing for another shape
Payload(v) ==
    CASE v.t = "str" -> [k \in 1..Len(v.s) |-> IntV(v.s[k])]
      [] v.t = "list" -> v.l
      [] OTHER -> <<>>
\* the open-file table the first k statements of a file program leave
\* behind, as the claim has it
RECURSIVE FilesAfter(_)
FilesAfter(k) ==
    IF k = 0 THEN NoFiles
    ELSE LET st == prog.body[k]
             prev == FilesAfter(k - 1)
             h == st.file_id.v.s
         IN  IF st.kind = "FileOpen"
             THEN [g \in DOMAIN prev \cup {h} |->
                      IF g = h
                      THEN [name |-> IF st.file_name \in DOMAIN prog.vt
                                     THEN prog.vt[st.file_name] ELSE StrV(st.file_name),
                            contents |-> <<>>]
                      ELSE prev[g]]
             ELSE [g \in DOMAIN prev |->
                      IF g = h
                      THEN [name |-> prev[g].name,
                            contents |-> prev[g].contents \o Payload(st.value.v)]
                      ELSE prev[g]]
\* C36: File Open makes (or replaces) the entry of its handle, with the
\* file name and empty contents; Print on an open handle appends, in order,
\* the codes of a text or the elements of a sequence to the contents of that
\* entry and drops a value of another shape; no other entry changes, and
\* what an entry held stays a prefix of what it holds after a Print.
C36_OpenAndPrint ==
    (prog.fam = "file" /\ exc = "none") => open_files = FilesAfter(Returned)
\* Open f As #1: Print #1, "AB": Print #1, [7]
C36_Witness ==
    /\ Done /\ prog.fam = "file" /\ prog.opened = {1} /\ ~prog.reopen
    /\ prog.prints = <<PrintS(H(1), Lit(StrV(<<65, 66>>))), PrintS(H(1), Lit(ListV(<<IntV(7)>>)))>>
    /\ open_files[<<35, 49>>] =
          [name |-> StrV(N_f), contents |-> <<IntV(65), IntV(66), IntV(7)>>]
\* Open n As #2 .. : Open f As #1 again: the entry of #1 is empty, that of
\* #2 is kept
C36_WitnessReplaced ==
    /\ Done /\ prog.fam = "file" /\ prog.opened = {1, 2} /\ prog.reopen
    /\ prog.prints = <<PrintS(H(1), Lit(StrV(<<65, 66>>))), PrintS(H(2), Lit(ListV(<<IntV(7)>>)))>>
    /\ open_files[<<35, 49>>] = [name |-> StrV(N_f), contents |-> <<>>]
    /\ open_files[<<35, 50>>] = [name |-> StrV(<<65>>), contents |-> <<IntV(7)>>]

\* ---- C37
\* C37: a Print to a handle that has no entry in the open-file table does
\* not abort the run: it returns without raising and leaves the table as it
\* is, for a text and for a sequence alike (the values of a file program all
\* evaluate, so an exception can only come from the table).
C37_PrintToUnopenedHandle ==
    prog.fam = "file" => (exc = "none" /\ open_files = FilesAfter(Returned))
\* (a Print of an empty text, of an empty sequence or of a value of another
\* shape to a handle that is not open returns without raising)
PrintNothingToUnopened ==
    (/\ prog.fam = "file"
     /\ \A k \in 1..Len(prog.prints) :
           prog.prints[k].file_id.v.s \in {H(g).v.s : g \in prog.opened}
             \/ Payload(prog.prints[k].value.v) = <<>>) =>
        (exc = "none" /\ open_files = FilesAfter(Returned))

\* ---- C38
\* C38: one evaluation of a Call statement invokes at most one callable,
\* at most once, whatever happens inside the callee: a callee found under
\* the exact name that ends with a not-found condition is not looked up
\* and run again by the fallback chain.
C38_AtMostOneInvocation ==
    prog.fam = "call" => Len(calls) <= 1
\* (procedures that return normally are invoked at most once)
OneInvocationWhenCalleeReturns ==
    (prog.fam = "call" /\ prog.k = 0) => Len(calls) <= 1

\* ---- C39
\* C39: x(i) = v on a sequence of length n changes no element other than
\* the one at position i and lengthens the sequence only by zeros up to
\* position i, for every integer index i, the negative ones included: for
\* i < 0 the length stays n, the element at position n + i (if there is
\* one) is the only one that may differ.
C39_OnlyPositionChanges ==
    (/\ prog.fam = "setitem" /\ ~prog.absent /\ IsList(prog.old) /\ stack = <<>>) =>
        LET old == prog.old.l
            n == Len(old)
            new == variables[N_x]
            pos == IF prog.i < 0 THEN n + prog.i ELSE prog.i
        IN  /\ exc = "none"
            /\ IsList(new)
            /\ Len(new.l) = IF prog.i < 0 THEN n ELSE Max(n, prog.i + 1)
            /\ \A k \in 0..(Len(new.l) - 1) :
                   k # pos => new.l[k + 1] = IF k < n THEN old[k + 1] ELSE IntV(0)

\* ---- C40
\* C40: every variable a Dim declares as an array starts as the empty
\* sequence, whether the declaration names an element type or not.
C40_ArraysStartEmpty ==
    (prog.fam = "dim" /\ stack = <<>>) =>
        \A k \in 1..Len(prog.decls) :
            prog.decls[k].arr =>
                /\ D(k) \in DOMAIN variables
                /\ variables[D(k)] = ListV(<<>>)
\* (an array declared with an element type and no initializer of its own
\* starts as the empty sequence)
TypedArraysStartEmpty ==
    (prog.fam = "dim" /\ stack = <<>>) =>
        \A k \in 1..Len(prog.decls) :
            (/\ prog.decls[k].arr /\ prog.decls[k].ty # "" /\ prog.decls[k].init = 0
             /\ D(k) \in DOMAIN variables) =>
                variables[D(k)] = ListV(<<>>)
====
